---- MODULE Spec2Model ----
(***************************************************************************)
(* A model of parts of spine-items:                                        *)
(*   - the Merger's ExecutableItem (execute, stop_execution,               *)
(*     execute_unfiltered) in merger/executable_item.py,                   *)
(*   - FileListModel, _file_label and FileListItem in models.py,           *)
(*   - Database, exported_files_as_resources and                           *)
(*     collect_execution_manifests in utils.py,                            *)
(*   - the importer's SourceDataTableModel (type checking),                *)
(*   - ToolSpecificationEditorWindow (undo commands, program files,        *)
(*     _save) in tool/widgets/tool_specification_editor_window.py.         *)
(* Each part has its own next-state relation and specification; the        *)
(* variables of the other parts stay at their initial values.              *)
(***************************************************************************)
EXTENDS Naturals, Integers, Sequences, FiniteSets, TLC

VARIABLES
    \* ---- Merger ExecutableItem: fields (executable_item.py:39-43)
    cancel_on_error,       \* self._cancel_on_error
    purge_before_writing,  \* self._purge_before_writing
    process,               \* self._process: "None" or "proc"
    \* ---- the thread running execute()
    pcExec,                \* position of execute(): idle/open/run/waiting/clear/decide/returned/raised
    callOk,                \* what super().execute() returned
    from_resources,        \* the forward resources of type "database"
    to_resources,          \* the backward resources of type "database"
    toOpen,                \* resources execute() has still to open
    opened,                \* the ExitStack: urls of the resources that are open now
    closedLog,             \* urls closed so far, in closing order
    return_value,          \* return_value[0] of run_until_complete()
    result,                \* what execute() returned: "none"/"SUCCESS"/"FAILURE"
    \* ---- the merge subprocess (ReturningProcess)
    procState,             \* absent/created/running/finished/terminated
    procFlag,              \* first element of do_work's return value
    nKilled,               \* how many times a running subprocess was terminated
    \* ---- the thread running stop_execution()
    pcStop,                \* idle/terminate/clear/done/raised
    stopAtPc,              \* pcExec when stop_execution() was called ("none": not called)
    stopAtProc,            \* procState when stop_execution() was called
    \* ---- execute_unfiltered()
    ufCalled,              \* execute_unfiltered() has been called
    ufBaseOk,              \* what super().execute_unfiltered() returned
    ufBackward,            \* its backward_resources argument
    ufFailing,             \* urls whose purge_url() fails
    ufPurged,              \* urls purge_url() was called on, in order
    ufResult,              \* its return value
    \* ---- FileListModel (models.py:110-114)
    files,                 \* self._files: the items, each with the identity of its object
    invalid_resource_types,\* self._invalid_resource_types
    flRaised,              \* the last FileListModel call raised RuntimeError
    \* ---- ToolSpecificationEditorWindow
    spec_dict,             \* self.spec_dict
    includes_main_path,    \* self.includes_main_path
    main_item,             \* path held by the child of "Main program file", or NoPath
    additional_items,      \* names the tree under "Additional program files" was built from
    comboBox_tooltype,     \* current index of the tool type combo box
    undo_stack,            \* commands of self._undo_stack
    undo_index,            \* how many of them are applied
    timers,                \* pending QTimer.singleShot(0, _push_change_main_program_file_command)
    last_op,               \* what the undo stack did last: none/push/undo/redo
    last_cmd,              \* the command it did it with
    last_pre,              \* spec_dict and includes_main_path before that
    initial,               \* spec_dict and includes_main_path after construction
    \* ---- ToolSpecificationEditorWindow: program file documents and _save
    programfile_documents, \* self._programfile_documents, in insertion order
    save_returned,         \* what the last _save() returned: none/True/False
    save_super_ok,         \* what super()._save() returned in it
    save_failing,          \* the files that could not be written in it
    docs_before,           \* the documents when it was called
    attempted,             \* the files it opened for writing, in order
    shown_error,           \* the file name in the error it showed, or NoPath
    status_saved,          \* the file names in its status bar message
    status_bar,            \* the message the status bar shows
    textEdit_document,     \* the path whose document textEdit_program shows, or NoPath
    textEdit_enabled,      \* textEdit_program.isEnabled()
    read_ok,               \* the paths that were read without error
    load_report,           \* the last _load_programfile_in_editor call and the documents before it
    \* ---- calls of the functions of models.py and utils.py
    label_resource,        \* the resource _file_label and from_resource are called with
    label_call,            \* the last of these calls and its outcome
    data_dir_listing,      \* what Path(data_dir).iterdir() yields: names and manifest contents
    manifests_call,        \* the outcome of collect_execution_manifests(data_dir)
    export_cache,          \* the exported_files argument of exported_files_as_resources
    export_databases,      \* its databases argument
    existing_paths,        \* the paths for which Path.exists() is true
    export_call,           \* its outcome: the resources and the updated cache
    db_instance,           \* a Database instance, db
    round_trip,            \* how far db.to_dict() has been taken through from_dict and to_dict
    \* ---- SourceDataTableModel
    main_data,             \* self._main_data: the rows of the table
    column_types,          \* self._column_types: the convert spec of each typed column
    row_types,             \* self._row_types: the convert spec of each typed row
    _column_type_errors,   \* the cells (row, column) that failed a column check
    _row_type_errors,      \* the cells (row, column) that failed a row check
    mapping_list_index     \* the mapping selected with set_mapping_list_index

mergerVars == <<process, pcExec, callOk, from_resources, to_resources, toOpen, opened,
                closedLog, return_value, result, procState, procFlag, nKilled,
                pcStop, stopAtPc, stopAtProc>>
itemVars == <<cancel_on_error, purge_before_writing>>
purgeVars == <<ufCalled, ufBaseOk, ufBackward, ufFailing, ufPurged, ufResult>>

fileVars == <<files, invalid_resource_types, flRaised>>

edVars == <<spec_dict, includes_main_path, main_item, additional_items, comboBox_tooltype,
            undo_stack, undo_index, timers, last_op, last_cmd, last_pre, initial>>

saveVars == <<programfile_documents, save_returned, save_super_ok, save_failing,
              docs_before, attempted, shown_error, status_saved, status_bar,
              textEdit_document, textEdit_enabled, read_ok, load_report>>

exportVars == <<export_cache, export_databases, existing_paths, export_call>>

dbVars == <<db_instance, round_trip>>

utilVars == <<label_resource, label_call, data_dir_listing, manifests_call,
              export_cache, export_databases, existing_paths, export_call, dbVars>>

tableVars == <<main_data, column_types, row_types, _column_type_errors, _row_type_errors,
               mapping_list_index>>

vars == <<itemVars, mergerVars, purgeVars, fileVars, edVars, saveVars, utilVars, tableVars>>

\* what the steps of one part leave alone: the variables of the other parts
frameMerger == UNCHANGED <<itemVars, purgeVars, fileVars, edVars, saveVars, utilVars, tableVars>>
framePurge == UNCHANGED <<itemVars, mergerVars, fileVars, edVars, saveVars, utilVars, tableVars>>
frameFiles == UNCHANGED <<itemVars, mergerVars, purgeVars, edVars, saveVars, utilVars, tableVars>>
frameEditor == UNCHANGED <<itemVars, mergerVars, purgeVars, fileVars, saveVars, utilVars, tableVars>>
frameSave == UNCHANGED <<itemVars, mergerVars, purgeVars, fileVars, edVars, utilVars, tableVars>>
frameUtil == UNCHANGED <<itemVars, mergerVars, purgeVars, fileVars, edVars, saveVars, tableVars>>
frameTable == UNCHANGED <<itemVars, mergerVars, purgeVars, fileVars, edVars, saveVars, utilVars>>

(***************************************************************************)
(* Bounds                                                                  *)
(***************************************************************************)
\* longest forward_resources / backward_resources list
MaxResources == 2
\* longest list of resources given to FileListModel.update
MaxUpdate == 2
\* most items a FileListModel holds
MaxFiles == 2
\* most commands applied on the editor's undo stack
MaxStack == 2
\* longest input, optional input or output file list of the editor
MaxIoFiles == 2
\* most program files of the editor
MaxProgramFiles == 2
\* pending timers counted
MaxTimers == 1

(***************************************************************************)
(* Resources (spine_engine ProjectItemResource): a type and a url.  The    *)
(* k-th resource of a list has its own url.                                *)
(***************************************************************************)
ResourceTypes == {"database", "file"}

TypeSeqs == UNION {[1..n -> ResourceTypes] : n \in 0..MaxResources}

Resources(prefix, types) ==
    [k \in 1..Len(types) |-> [type_ |-> types[k], url |-> <<prefix, k>>]]

IsDatabase(r) == r.type_ = "database"

\* [r for r in resources if r.type_ == "database"]
database_resources(resources) == SelectSeq(resources, IsDatabase)

RECURSIVE Reverse(_)
Reverse(s) == IF s = <<>> THEN <<>> ELSE Append(Reverse(Tail(s)), Head(s))

Urls(resources) == [k \in 1..Len(resources) |-> resources[k].url]

(***************************************************************************)
(* Merger ExecutableItem.execute (executable_item.py:69-88), one step per  *)
(* statement that another thread can observe.                              *)
(***************************************************************************)
InitMerger ==
    /\ process = "None"
    /\ pcExec = "idle"
    /\ callOk = FALSE
    /\ from_resources = <<>>
    /\ to_resources = <<>>
    /\ toOpen = <<>>
    /\ opened = <<>>
    /\ closedLog = <<>>
    /\ return_value = FALSE
    /\ result = "none"
    /\ procState = "absent"
    /\ procFlag = FALSE
    /\ nKilled = 0
    /\ pcStop = "idle"
    /\ stopAtPc = "none"
    /\ stopAtProc = "none"

\* ExitStack.__exit__: closes what is open, last opened first
exit_stack_close(stack, log) == log \o Reverse(stack)

\* lines 71-76: the early returns, else enter the with block
execute_enter(ok, forward_resources, backward_resources) ==
    /\ pcExec = "idle"
    /\ callOk' = ok
    /\ from_resources' = database_resources(forward_resources)
    /\ to_resources' = database_resources(backward_resources)
    /\ IF ~ok
         THEN /\ result' = "FAILURE"
              /\ pcExec' = "returned"
              /\ toOpen' = <<>>
         ELSE IF from_resources' = <<>> \/ to_resources' = <<>>
                THEN /\ result' = "SUCCESS"
                     /\ pcExec' = "returned"
                     /\ toOpen' = <<>>
                ELSE /\ result' = result
                     /\ pcExec' = "open"
                     /\ toOpen' = Urls(from_resources') \o Urls(to_resources')
    /\ UNCHANGED <<process, opened, closedLog, return_value, procState, procFlag,
                   nKilled, pcStop, stopAtPc, stopAtProc>>
    /\ frameMerger

\* resources opened without an ExitStack: a raising open() closes nothing
execute_open_no_unwind(succeeds) ==
    /\ pcExec = "open"
    /\ toOpen # <<>>
    /\ IF succeeds
         THEN /\ opened' = Append(opened, Head(toOpen))
              /\ toOpen' = Tail(toOpen)
              /\ UNCHANGED <<closedLog, pcExec>>
         ELSE /\ toOpen' = <<>>
              /\ pcExec' = "raised"
              /\ UNCHANGED <<closedLog, opened>>
    /\ UNCHANGED <<process, callOk, from_resources, to_resources, return_value, result,
                   procState, procFlag, nKilled, pcStop, stopAtPc, stopAtProc>>
    /\ frameMerger

\* lines 78-79: stack.enter_context(resource.open()) for the next resource;
\* open() either succeeds or raises, and a raise unwinds the ExitStack
execute_open(succeeds) ==
    /\ pcExec = "open"
    /\ toOpen # <<>>
    /\ IF succeeds
         THEN /\ opened' = Append(opened, Head(toOpen))
              /\ toOpen' = Tail(toOpen)
              /\ UNCHANGED <<closedLog, pcExec>>
         ELSE /\ closedLog' = exit_stack_close(opened, closedLog)
              /\ opened' = <<>>
              /\ toOpen' = <<>>
              /\ pcExec' = "raised"
    /\ UNCHANGED <<process, callOk, from_resources, to_resources, return_value, result,
                   procState, procFlag, nKilled, pcStop, stopAtPc, stopAtProc>>
    /\ frameMerger

\* lines 80-83: self._process = ReturningProcess(target=do_work, ...)
execute_create_process ==
    /\ pcExec = "open"
    /\ toOpen = <<>>
    /\ process' = "proc"
    /\ procState' = "created"
    /\ pcExec' = "run"
    /\ UNCHANGED <<callOk, from_resources, to_resources, toOpen, opened, closedLog,
                   return_value, result, procFlag, nKilled, pcStop, stopAtPc, stopAtProc>>
    /\ frameMerger

\* line 84, first half: run_until_complete() starts the subprocess
execute_start ==
    /\ pcExec = "run"
    /\ procState' = "running"
    /\ pcExec' = "waiting"
    /\ UNCHANGED <<process, callOk, from_resources, to_resources, toOpen, opened,
                   closedLog, return_value, result, procFlag, nKilled, pcStop,
                   stopAtPc, stopAtProc>>
    /\ frameMerger

\* do_work ends on its own, with a status flag first in its return value
process_finishes(flag) ==
    /\ procState = "running"
    /\ procState' = "finished"
    /\ procFlag' = flag
    /\ UNCHANGED <<process, pcExec, callOk, from_resources, to_resources, toOpen,
                   opened, closedLog, return_value, result, nKilled, pcStop,
                   stopAtPc, stopAtProc>>
    /\ frameMerger

\* line 84, second half: run_until_complete() returns once the subprocess has
\* ended; a terminated subprocess yields a false status flag
execute_wait_returns ==
    /\ pcExec = "waiting"
    /\ procState \in {"finished", "terminated"}
    /\ return_value' = IF procState = "finished" THEN procFlag ELSE FALSE
    /\ pcExec' = "clear"
    /\ UNCHANGED <<process, callOk, from_resources, to_resources, toOpen, opened,
                   closedLog, result, procState, procFlag, nKilled, pcStop,
                   stopAtPc, stopAtProc>>
    /\ frameMerger

\* line 85: self._process = None
execute_clear_process ==
    /\ pcExec = "clear"
    /\ process' = "None"
    /\ pcExec' = "decide"
    /\ UNCHANGED <<callOk, from_resources, to_resources, toOpen, opened, closedLog,
                   return_value, result, procState, procFlag, nKilled, pcStop,
                   stopAtPc, stopAtProc>>
    /\ frameMerger

\* the finish states swapped
finish_state_swapped(value) == IF value THEN "FAILURE" ELSE "SUCCESS"

\* lines 86-88: the finish state from return_value[0]
finish_state(value) == IF value THEN "SUCCESS" ELSE "FAILURE"

\* lines 86-88 and the end of the with block: return, closing the ExitStack
execute_return ==
    /\ pcExec = "decide"
    /\ result' = finish_state(return_value)
    /\ closedLog' = exit_stack_close(opened, closedLog)
    /\ opened' = <<>>
    /\ pcExec' = "returned"
    /\ UNCHANGED <<process, callOk, from_resources, to_resources, toOpen,
                   return_value, procState, procFlag, nKilled, pcStop, stopAtPc,
                   stopAtProc>>
    /\ frameMerger

(***************************************************************************)
(* Merger ExecutableItem.stop_execution (executable_item.py:90-95), called *)
(* by another thread than the one in execute().                            *)
(***************************************************************************)
\* lines 92-93: super().stop_execution(); if self._process is not None
stop_execution_enter ==
    /\ pcStop = "idle"
    /\ stopAtPc' = pcExec
    /\ stopAtProc' = procState
    /\ pcStop' = IF process = "None" THEN "done" ELSE "terminate"
    /\ UNCHANGED <<process, pcExec, callOk, from_resources, to_resources, toOpen,
                   opened, closedLog, return_value, result, procState, procFlag,
                   nKilled>>
    /\ frameMerger

\* a stop_execution() that forgets the subprocess without terminating it
stop_execution_no_terminate ==
    /\ pcStop = "terminate"
    /\ pcStop' = IF process = "None" \/ procState = "created" THEN "raised" ELSE "clear"
    /\ UNCHANGED <<procState, nKilled>>
    /\ UNCHANGED <<process, pcExec, callOk, from_resources, to_resources, toOpen,
                   opened, closedLog, return_value, result, procFlag, stopAtPc,
                   stopAtProc>>
    /\ frameMerger

\* line 94: self._process.terminate().  self._process is read again: it may be
\* None by now (AttributeError).  terminate() of a subprocess that was not
\* started raises as well; terminate() of one that has ended does nothing.
stop_execution_terminate ==
    /\ pcStop = "terminate"
    /\ IF process = "None" \/ procState = "created"
         THEN /\ pcStop' = "raised"
              /\ UNCHANGED <<procState, nKilled>>
         ELSE /\ pcStop' = "clear"
              /\ IF procState = "running"
                   THEN /\ procState' = "terminated"
                        /\ nKilled' = nKilled + 1
                   ELSE UNCHANGED <<procState, nKilled>>
    /\ UNCHANGED <<process, pcExec, callOk, from_resources, to_resources, toOpen,
                   opened, closedLog, return_value, result, procFlag, stopAtPc,
                   stopAtProc>>
    /\ frameMerger

\* line 95: self._process = None
stop_execution_clear ==
    /\ pcStop = "clear"
    /\ process' = "None"
    /\ pcStop' = "done"
    /\ UNCHANGED <<pcExec, callOk, from_resources, to_resources, toOpen, opened,
                   closedLog, return_value, result, procState, procFlag, nKilled,
                   stopAtPc, stopAtProc>>
    /\ frameMerger

ExecSteps ==
    \/ \E s \in BOOLEAN : execute_open(s)
    \/ execute_create_process
    \/ execute_start
    \/ execute_wait_returns
    \/ execute_clear_process
    \/ execute_return

StopSteps ==
    \/ stop_execution_terminate
    \/ stop_execution_clear

NextMerger ==
    \/ \E ok \in BOOLEAN, f \in TypeSeqs, b \in TypeSeqs :
          execute_enter(ok, Resources("from", f), Resources("to", b))
    \/ ExecSteps
    \/ \E flag \in BOOLEAN : process_finishes(flag)
    \/ stop_execution_enter
    \/ StopSteps

(***************************************************************************)
(* Merger ExecutableItem.execute_unfiltered (executable_item.py:58-67)     *)
(***************************************************************************)
InitItem ==
    /\ cancel_on_error \in BOOLEAN
    /\ purge_before_writing \in BOOLEAN

InitPurge ==
    /\ ufCalled = FALSE
    /\ ufBaseOk = FALSE
    /\ ufBackward = <<>>
    /\ ufFailing = {}
    /\ ufPurged = <<>>
    /\ ufResult = FALSE

\* utils.purge_url(url, purge_settings, logger): True when the purge succeeded
purge_url(url, failing) == url \notin failing

\* a for loop that returns False at every failed purge, cancel_on_error or not
RECURSIVE purge_loop_always_cancels(_, _, _)
purge_loop_always_cancels(urls, failing, cancel) ==
    IF urls = <<>>
      THEN [purged |-> <<>>, value |-> TRUE]
      ELSE IF ~purge_url(Head(urls), failing)
             THEN [purged |-> <<Head(urls)>>, value |-> FALSE]
             ELSE LET rest == purge_loop_always_cancels(Tail(urls), failing, cancel)
                  IN  [purged |-> <<Head(urls)>> \o rest.purged, value |-> rest.value]

\* lines 64-67: for url in to_urls: if not purge_url(...) and cancel: return False
RECURSIVE purge_loop(_, _, _)
purge_loop(urls, failing, cancel) ==
    IF urls = <<>>
      THEN [purged |-> <<>>, value |-> TRUE]
      ELSE IF ~purge_url(Head(urls), failing) /\ cancel
             THEN [purged |-> <<Head(urls)>>, value |-> FALSE]
             ELSE LET rest == purge_loop(Tail(urls), failing, cancel)
                  IN  [purged |-> <<Head(urls)>> \o rest.purged, value |-> rest.value]

\* lines 58-67
execute_unfiltered(ok, backward_resources, failing) ==
    /\ ufCalled' = TRUE
    /\ ufBaseOk' = ok
    /\ ufBackward' = backward_resources
    /\ ufFailing' = failing
    /\ IF ~ok
         THEN /\ ufResult' = FALSE
              /\ ufPurged' = <<>>
         ELSE IF ~purge_before_writing
                THEN /\ ufResult' = TRUE
                     /\ ufPurged' = <<>>
                ELSE LET to_urls == Urls(database_resources(backward_resources))
                         done == purge_loop(to_urls, failing, cancel_on_error)
                     IN  /\ ufResult' = done.value
                         /\ ufPurged' = done.purged
    /\ framePurge

NextPurge ==
    \E ok \in BOOLEAN, b \in TypeSeqs :
      \E failing \in SUBSET {r.url : r \in {Resources("to", b)[k] : k \in 1..Len(b)}} :
        execute_unfiltered(ok, Resources("to", b), failing)

(***************************************************************************)
(* FileListModel and FileListItem (models.py:28-226)                       *)
(***************************************************************************)
None == "<None>"

\* the resources the model is updated with: type_, path, url, the "label"
\* of the metadata and the name of the provider
FileResources ==
    {[type_ |-> "file", path |-> "a", url |-> "file:a", label |-> None, provider |-> "P"],
     [type_ |-> "database", path |-> "", url |-> "db", label |-> None, provider |-> "P"],
     [type_ |-> "transient_file", path |-> "", url |-> None, label |-> "x", provider |-> "P"],
     [type_ |-> "transient_file", path |-> "a", url |-> "file:a", label |-> None, provider |-> "Q"],
     [type_ |-> "transient_file", path |-> "", url |-> None, label |-> None, provider |-> "P"],
     [type_ |-> "file_pattern", path |-> "", url |-> None, label |-> "x", provider |-> "P"],
     [type_ |-> "unknown", path |-> "a", url |-> "file:a", label |-> None, provider |-> "P"]}

FileLabels == {"a", "x"}

ResourceSeqs == UNION {[1..n -> FileResources] : n \in 0..MaxUpdate}

\* bool(resource.url)
has_url(resource) == resource.url # None

\* _file_label without the metadata label: the path whenever there is a url
_file_label_by_path(resource) ==
    IF resource.type_ = "file" THEN [raised |-> FALSE, label |-> resource.path]
    ELSE IF resource.type_ = "database" THEN [raised |-> FALSE, label |-> resource.url]
    ELSE IF resource.type_ \in {"transient_file", "file_pattern"}
           THEN IF resource.url = None
                  THEN [raised |-> TRUE, label |-> None]
                  ELSE [raised |-> FALSE, label |-> resource.path]
    ELSE [raised |-> TRUE, label |-> None]

\* models.py:28-41; raised: RuntimeError
_file_label(resource) ==
    IF resource.type_ = "file" THEN [raised |-> FALSE, label |-> resource.path]
    ELSE IF resource.type_ = "database" THEN [raised |-> FALSE, label |-> resource.url]
    ELSE IF resource.type_ \in {"transient_file", "file_pattern"}
           THEN IF resource.label = None
                  THEN IF resource.url = None
                         THEN [raised |-> TRUE, label |-> None]
                         ELSE [raised |-> FALSE, label |-> resource.path]
                  ELSE [raised |-> FALSE, label |-> resource.label]
    ELSE [raised |-> TRUE, label |-> None]

\* FileListItem.__init__, models.py:55-60; id: the identity of the object
FileListItem(id, label, path, provider_name, is_pattern, selected) ==
    [id |-> id, label |-> label, path |-> path, selected |-> selected,
     provider_name |-> provider_name, is_pattern |-> is_pattern]

\* FileListItem.from_resource, models.py:62-87
from_resource(id, resource) ==
    LET typed == resource.type_ \in {"file", "database", "transient_file", "file_pattern"}
        label == IF resource.type_ = "file" THEN [raised |-> FALSE, label |-> resource.path]
                 ELSE IF resource.type_ = "database"
                        THEN [raised |-> FALSE, label |-> resource.url]
                 ELSE _file_label(resource)
    IN  IF ~typed \/ label.raised
          THEN [raised |-> TRUE, item |-> FileListItem(id, None, "", "", FALSE, TRUE)]
          ELSE [raised |-> FALSE,
                item |-> FileListItem(id, label.label,
                                      IF has_url(resource) THEN resource.path ELSE "",
                                      resource.provider,
                                      resource.type_ = "file_pattern", TRUE)]

\* FileListItem.update, models.py:93-101
item_update(item, resource) ==
    [item EXCEPT !.path = IF has_url(resource) THEN resource.path ELSE "",
                 !.provider_name = resource.provider,
                 !.is_pattern = resource.type_ = "file_pattern"]

\* what a change made to the object `id` does to a list holding it
Mutate(list, id, Change(_)) ==
    [k \in 1..Len(list) |-> IF list[k].id = id THEN Change(list[k]) ELSE list[k]]

ItemIds(list) == {list[k].id : k \in 1..Len(list)}

\* identities only tell objects apart: they are renumbered in the order of the
\* list after every call
FirstRow(list, id) == CHOOSE k \in 1..Len(list) : list[k].id = id /\ \A j \in 1..(k - 1) : list[j].id # id

Renumbered(list) ==
    [k \in 1..Len(list) |->
        [list[k] EXCEPT !.id = Cardinality({i \in ItemIds(list) :
                                              FirstRow(list, i) < FirstRow(list, list[k].id)})]]

\* the identity of a new object: one that no living item has
FreshId(used) == CHOOSE n \in 0..Cardinality(used) : n \notin used

\* models.py:179: {item.label: item for item in self._files}; a later item of
\* the same label replaces an earlier one
items_by_label(list, label) ==
    LET rows == {k \in 1..Len(list) : list[k].label = label}
    IN  IF rows = {} THEN None
        ELSE LET last == CHOOSE k \in rows : \A j \in rows : j <= k
             IN  <<list[last].id>>

\* models.py:182-191, the loop.  st: the items as mutated so far (cur), the
\* updated and the new list, whether a RuntimeError was raised
RECURSIVE update_loop(_, _, _, _)
update_loop(resources, original, invalid, st) ==
    IF resources = <<>> \/ st.raised THEN st
    ELSE LET resource == Head(resources)
             rest == Tail(resources)
         IN  IF resource.type_ \in invalid
               THEN update_loop(rest, original, invalid, st)
               ELSE LET label == _file_label(resource)
                        found == items_by_label(original, label.label)
                    IN  IF label.raised THEN [st EXCEPT !.raised = TRUE]
                        ELSE IF found # None
                          THEN update_loop(rest, original, invalid,
                                 [st EXCEPT
                                    !.cur = Mutate(st.cur, found[1],
                                                   LAMBDA i : item_update(i, resource)),
                                    !.updated = Append(st.updated, found[1])])
                          ELSE LET made == from_resource(
                                             FreshId(ItemIds(st.cur) \cup ItemIds(st.new)),
                                             resource)
                               IN  IF made.raised THEN [st EXCEPT !.raised = TRUE]
                                   ELSE update_loop(rest, original, invalid,
                                          [st EXCEPT !.new = Append(st.new, made.item)])

ItemOfId(list, id) == list[CHOOSE k \in 1..Len(list) : list[k].id = id]

\* FileListModel.update, models.py:176-193; a RuntimeError leaves self._files
\* as it is, but for the items updated before it was raised
update(resources) ==
    LET st == update_loop(resources, files, invalid_resource_types,
                          [cur |-> files, updated |-> <<>>, new |-> <<>>, raised |-> FALSE])
    IN  /\ flRaised' = st.raised
        /\ files' = IF st.raised THEN st.cur
                    ELSE Renumbered([k \in 1..Len(st.updated) |->
                                        ItemOfId(st.cur, st.updated[k])] \o st.new)
        /\ UNCHANGED invalid_resource_types
        /\ frameFiles


\* FileListModel.set_selected, models.py:199-212
set_selected(label, selected) ==
    LET rows == {k \in 1..Len(files) : files[k].label = label}
    IN  /\ rows # {}
        /\ LET row == CHOOSE k \in rows : \A j \in rows : k <= j
           IN  files' = Mutate(files, files[row].id, LAMBDA i : [i EXCEPT !.selected = selected])
        /\ flRaised' = FALSE
        /\ UNCHANGED invalid_resource_types
    /\ frameFiles

\* FileListModel.mark_as_nonexistent, models.py:171-174
mark_as_nonexistent(row) ==
    /\ row \in 1..Len(files)
    /\ files' = Mutate(files, files[row].id, LAMBDA i : [i EXCEPT !.path = ""])
    /\ flRaised' = FALSE
    /\ UNCHANGED invalid_resource_types
    /\ frameFiles

\* dicts of at most MaxFiles labels, as the sequence of their keys
LabelSeqs ==
    {q \in UNION {[1..n -> FileLabels] : n \in 1..MaxFiles} :
        \A i, j \in 1..Len(q) : i # j => q[i] # q[j]}

RECURSIVE append_initial(_, _, _)
append_initial(list, labels, selected) ==
    IF labels = <<>> THEN list
    ELSE append_initial(
           Append(list, FileListItem(FreshId(ItemIds(list)), Head(labels), Head(labels),
                                     "", FALSE, selected[Head(labels)])),
           Tail(labels), selected)

\* FileListModel.set_initial_state, models.py:223-226
set_initial_state(labels, selected) ==
    /\ Len(files) + Len(labels) <= MaxFiles
    /\ files' = append_initial(files, labels, selected)
    /\ flRaised' = FALSE
    /\ UNCHANGED invalid_resource_types
    /\ frameFiles

\* FileListModel.__init__, models.py:110-114
InitFiles ==
    /\ files = <<>>
    /\ invalid_resource_types = {}
    /\ flRaised = FALSE

InitFilesAny ==
    /\ files = <<>>
    /\ invalid_resource_types \in {{}, {"database"}}
    /\ flRaised = FALSE

NextFiles ==
    \/ \E resources \in ResourceSeqs : update(resources)
    \/ \E label \in FileLabels, selected \in BOOLEAN : set_selected(label, selected)
    \/ \E row \in 1..MaxFiles : mark_as_nonexistent(row)
    \/ \E labels \in LabelSeqs, selected \in [FileLabels -> BOOLEAN] :
          set_initial_state(labels, selected)

(***************************************************************************)
(* ToolSpecificationEditorWindow: paths (os.path).  A path is the sequence *)
(* of its components: "/d/m.py" is <<"/", "d", "m.py">>, "m.py" is         *)
(* <<"m.py">>, "" is <<>> and "/d/" is <<"/", "d", "">>.                    *)
(***************************************************************************)
\* Python's None where a path is expected
NoPath == <<"<None>">>

\* os.getcwd()
cwd == <<"/", "w">>

isabs(p) == p # <<>> /\ p[1] = "/"

\* os.path.dirname
dirname(p) == IF p = <<>> \/ p = <<"/">> THEN p ELSE SubSeq(p, 1, Len(p) - 1)

\* os.path.basename, as a path of at most one component
basename(p) ==
    IF p = <<>> \/ p = <<"/">> \/ p[Len(p)] = "" THEN <<>> ELSE <<p[Len(p)]>>

\* os.path.join of two paths
join(a, b) ==
    IF isabs(b) THEN b
    ELSE IF a = <<>> THEN b
    ELSE LET a0 == IF a[Len(a)] = "" THEN SubSeq(a, 1, Len(a) - 1) ELSE a
         IN  IF b = <<>> THEN (IF a = <<"/">> THEN a ELSE Append(a0, ""))
             ELSE a0 \o b

RECURSIVE normpath_loop(_, _)
\* os.path.normpath on the components after the root
normpath_loop(done, rest) ==
    IF rest = <<>> THEN done
    ELSE IF Head(rest) \in {"", "."} THEN normpath_loop(done, Tail(rest))
    ELSE IF Head(rest) = ".."
           THEN normpath_loop(IF done = <<>> THEN done
                              ELSE SubSeq(done, 1, Len(done) - 1), Tail(rest))
    ELSE normpath_loop(Append(done, Head(rest)), Tail(rest))

\* os.path.abspath
abspath(p) ==
    LET q == IF isabs(p) THEN p ELSE join(cwd, p)
    IN  <<"/">> \o normpath_loop(<<>>, Tail(q))

\* how many leading components two lists share
CommonLen(a, b) ==
    LET agree == {n \in 0..Len(a) : n <= Len(b) /\ \A k \in 1..n : a[k] = b[k]}
    IN  CHOOSE n \in agree : \A m \in agree : m <= n

\* os.path.relpath(path, start) for a non-empty path
relpath(path, start) ==
    LET start_list == Tail(abspath(start))
        path_list == Tail(abspath(path))
        i == CommonLen(start_list, path_list)
        rel_list == [k \in 1..(Len(start_list) - i) |-> ".."]
                      \o SubSeq(path_list, i + 1, Len(path_list))
    IN  IF rel_list = <<>> THEN <<".">> ELSE rel_list

\* spinetoolbox.helpers.same_path
same_path(path1, path2) == path1 = path2

\* os.path.commonprefix([abspath(a), abspath(b)]) equals the string `whole`:
\* no component name used here is the beginning of another one, so the
\* character-wise common prefix ends at a component boundary
commonprefix_is(a, b, whole) ==
    LET la == abspath(a)
        lb == abspath(b)
    IN  whole = SubSeq(la, 1, CommonLen(la, lb))

(***************************************************************************)
(* ToolSpecificationEditorWindow: the editor's state and the callbacks of  *)
(* its undo commands.  The callbacks are functions from editor state to    *)
(* editor state, because a callback may run inside another one (a signal   *)
(* of the tool type combo box).                                            *)
(***************************************************************************)
\* tool_specifications.TOOL_TYPES, and t.lower() for each of them
TOOL_TYPES == <<"Julia", "Python", "Executable">>

lower(t) ==
    CASE t = "Julia" -> "julia"
      [] t = "Python" -> "python"
      [] t = "Executable" -> "executable"
      [] OTHER -> t

\* TOOL_TYPES[index] with Python's indexing: -1 is the last element
tool_type_at(index) ==
    IF index < 0 THEN TOOL_TYPES[Len(TOOL_TYPES) + index + 1] ELSE TOOL_TYPES[index + 1]

\* next(iter(k for k, t in enumerate(TOOL_TYPES) if t.lower() == value), -1)
tool_type_index(value) ==
    LET found == {k \in 1..Len(TOOL_TYPES) : lower(TOOL_TYPES[k]) = value}
    IN  IF found = {} THEN -1 ELSE (CHOOSE k \in found : \A j \in found : k <= j) - 1

\* spec_dict has no "execution_settings" key
NoSettings == [kind |-> "absent", kernel_spec_name |-> "", cmd |-> ""]
\* the defaults clear_execution_settings stores for a Python tool
PythonDefaults == [kind |-> "python", kernel_spec_name |-> "", cmd |-> ""]
\* the dict clear_execution_settings stores for an Executable tool
ExecutableDefaults == [kind |-> "executable", kernel_spec_name |-> "", cmd |-> ""]

\* the editor's state as one value
EdState ==
    [spec_dict |-> spec_dict,
     includes_main_path |-> includes_main_path,
     main_item |-> main_item,
     additional_items |-> additional_items,
     comboBox_tooltype |-> comboBox_tooltype,
     undo_stack |-> undo_stack,
     undo_index |-> undo_index,
     timers |-> timers]

\* what a command is meant to restore
Snapshot(st) == [spec_dict |-> st.spec_dict, includes_main_path |-> st.includes_main_path]

populate_inputfiles_list(st, names) == [st EXCEPT !.spec_dict.inputfiles = names]

populate_inputfiles_opt_list(st, names) == [st EXCEPT !.spec_dict.inputfiles_opt = names]

populate_outputfiles_wrong_list(st, names) == [st EXCEPT !.spec_dict.inputfiles_opt = names]

populate_outputfiles_list(st, names) == [st EXCEPT !.spec_dict.outputfiles = names]

\* clear_execution_settings without the pop: the settings of another type stay
clear_execution_settings_unpopped(st, spec_type) ==
    [st EXCEPT !.spec_dict.execution_settings =
        IF spec_type = "python" THEN PythonDefaults
        ELSE IF spec_type = "executable" THEN ExecutableDefaults
        ELSE @]

clear_execution_settings(st, spec_type) ==
    [st EXCEPT !.spec_dict.execution_settings =
        IF spec_type = "python" THEN PythonDefaults
        ELSE IF spec_type = "executable" THEN ExecutableDefaults
        ELSE NoSettings]

_set_kernel_spec(st, value) ==
    [st EXCEPT !.spec_dict.execution_settings.kernel_spec_name = value]

_set_cmd(st, value) == [st EXCEPT !.spec_dict.execution_settings.cmd = value]

\* the main program item is replaced; a timer is started when there is one
populate_main_programfile(st, file_path) ==
    IF file_path # <<>>
    THEN [st EXCEPT !.main_item = file_path,
                    !.timers = IF @ < MaxTimers THEN @ + 1 ELSE @]
    ELSE [st EXCEPT !.main_item = NoPath]

_set_main_program_file(st, file_path) == populate_main_programfile(st, file_path)

populate_programfile_list(st, names) == [st EXCEPT !.additional_items = names]

\* next(iter(f for f in program_files if f), "")
first_nonempty(program_files) ==
    LET full == SelectSeq(program_files, LAMBDA f : f # <<>>)
    IN  IF full = <<>> THEN <<>> ELSE Head(full)

_set_program_files(st, program_files) ==
    LET main_program_file == IF program_files # <<>> THEN program_files[1] ELSE <<>>
        main_path == dirname(first_nonempty(program_files))
        additional_program_files ==
            [k \in 1..(Len(program_files) - 1) |-> relpath(program_files[k + 1], main_path)]
        s1 == [st EXCEPT !.includes_main_path = main_path]
        s2 == _set_main_program_file(s1, main_program_file)
        s3 == populate_programfile_list(s2, additional_program_files)
    IN  [s3 EXCEPT !.spec_dict.has_includes = TRUE,
                   !.spec_dict.includes =
                       <<basename(main_program_file)>> \o additional_program_files]

RECURSIVE callback(_, _, _)
\* QUndoStack.push: the command is applied, the commands that had been
\* undone are dropped, the command becomes the last applied one
push(st, cmd) ==
    LET s1 == callback(st, cmd.cb, cmd.new)
    IN  [s1 EXCEPT !.undo_stack = Append(SubSeq(s1.undo_stack, 1, s1.undo_index), cmd),
                   !.undo_index = s1.undo_index + 1]

Command(cb, new, old, st) == [cb |-> cb, new |-> new, old |-> old, before |-> Snapshot(st)]

_push_change_tooltype_command(st, index) ==
    LET new_type == lower(tool_type_at(index))
        old_type == IF st.spec_dict.tooltype = None THEN "" ELSE st.spec_dict.tooltype
    IN  IF new_type = old_type THEN st
        ELSE push(st, Command("_set_tooltype", <<new_type>>, <<old_type>>, st))

\* comboBox_tooltype.setCurrentIndex: currentIndexChanged is emitted, and
\* _push_change_tooltype_command runs, when the index changes
setCurrentIndex(st, index) ==
    IF st.comboBox_tooltype = index THEN st
    ELSE _push_change_tooltype_command([st EXCEPT !.comboBox_tooltype = index], index)

_set_tooltype(st, value) ==
    LET s1 == [st EXCEPT !.spec_dict.tooltype = value]
        s2 == setCurrentIndex(s1, tool_type_index(value))
    IN  clear_execution_settings(s2, value)

\* ChangeSpecPropertyCommand: redo calls the callback with the new value,
\* undo calls it with the old one
callback(st, cb, value) ==
    CASE cb = "populate_inputfiles_list" -> populate_inputfiles_list(st, value)
      [] cb = "populate_inputfiles_opt_list" -> populate_inputfiles_opt_list(st, value)
      [] cb = "populate_outputfiles_list" -> populate_outputfiles_list(st, value)
      [] cb = "_set_tooltype" -> _set_tooltype(st, value[1])
      [] cb = "_set_kernel_spec" -> _set_kernel_spec(st, value[1])
      [] cb = "_set_cmd" -> _set_cmd(st, value[1])
      [] cb = "_set_program_files" -> _set_program_files(st, value)

\* QUndoStack.undo
undo(st) ==
    LET idx == st.undo_index - 1
        cmd == st.undo_stack[idx + 1]
        s1 == callback(st, cmd.cb, cmd.old)
    IN  [s1 EXCEPT !.undo_index = idx]

\* QUndoStack.redo
redo(st) ==
    LET cmd == st.undo_stack[st.undo_index + 1]
        s1 == callback(st, cmd.cb, cmd.new)
    IN  [s1 EXCEPT !.undo_index = s1.undo_index + 1]

(***************************************************************************)
(* ToolSpecificationEditorWindow: construction and the handlers            *)
(***************************************************************************)
\* names typed into the input and output file dialogs
IoNames == {"a", "b"}
\* kernel specs offered by the Python options widget
KernelSpecs == {"", "k1"}
\* texts of the command line edit of the Executable options widget
CmdTexts == {"", "run"}
\* files the file dialogs can return
ProgramFiles == {<<"/", "d", "m.py">>, <<"/", "d", "x.py">>, <<"/", "e", "m.py">>}

EmptySpecDict ==
    [tooltype |-> None, execution_settings |-> NoSettings,
     has_includes |-> FALSE, includes |-> <<>>,
     inputfiles |-> <<>>, inputfiles_opt |-> <<>>, outputfiles |-> <<>>]

\* the specifications an editor is opened with; "" stands for none
PythonSpecification ==
    [tooltype |-> "python",
     execution_settings |-> [kind |-> "python", kernel_spec_name |-> "k1", cmd |-> ""],
     path |-> <<"/", "d">>, includes |-> <<<<"m.py">>, <<"x.py">>>>,
     inputfiles |-> <<"a">>, inputfiles_opt |-> <<>>, outputfiles |-> <<"b">>]

NoCommand == [cb |-> "none", new |-> <<>>, old |-> <<>>,
              before |-> [spec_dict |-> EmptySpecDict, includes_main_path |-> NoPath]]

\* ToolSpecificationEditorWindow.__init__ without a specification
InitEditor ==
    /\ spec_dict = EmptySpecDict
    /\ includes_main_path = NoPath
    /\ main_item = NoPath
    /\ additional_items = <<>>
    /\ comboBox_tooltype = -1
    /\ undo_stack = <<>>
    /\ undo_index = 0
    /\ timers = 0
    /\ last_op = "none"
    /\ last_cmd = NoCommand
    /\ last_pre = [spec_dict |-> EmptySpecDict, includes_main_path |-> NoPath]
    /\ initial = [spec_dict |-> EmptySpecDict, includes_main_path |-> NoPath]

\* ToolSpecificationEditorWindow.__init__ with a specification
InitEditorWith(specification) ==
    /\ spec_dict = [tooltype |-> specification.tooltype,
                    execution_settings |-> specification.execution_settings,
                    has_includes |-> TRUE, includes |-> specification.includes,
                    inputfiles |-> specification.inputfiles,
                    inputfiles_opt |-> specification.inputfiles_opt,
                    outputfiles |-> specification.outputfiles]
    /\ includes_main_path = specification.path
    /\ main_item = IF specification.includes # <<>>
                     THEN join(specification.path, Head(specification.includes))
                     ELSE NoPath
    /\ additional_items = IF specification.includes # <<>>
                            THEN Tail(specification.includes) ELSE <<>>
    /\ comboBox_tooltype = tool_type_index(specification.tooltype)
    /\ undo_stack = <<>>
    /\ undo_index = 0
    /\ timers = IF specification.includes # <<>> THEN 1 ELSE 0
    /\ last_op = "none"
    /\ last_cmd = NoCommand
    /\ last_pre = [spec_dict |-> spec_dict, includes_main_path |-> includes_main_path]
    /\ initial = [spec_dict |-> spec_dict, includes_main_path |-> includes_main_path]

\* the handler ran and left the editor in state st; op names what the undo
\* stack did, cmd the command it did it with
EdResult(st, op, cmd) ==
    /\ spec_dict' = st.spec_dict
    /\ includes_main_path' = st.includes_main_path
    /\ main_item' = st.main_item
    /\ additional_items' = st.additional_items
    /\ comboBox_tooltype' = st.comboBox_tooltype
    /\ undo_stack' = st.undo_stack
    /\ undo_index' = st.undo_index
    /\ timers' = st.timers
    /\ last_op' = op
    /\ last_cmd' = cmd
    /\ last_pre' = Snapshot(EdState)
    /\ UNCHANGED initial
    /\ frameEditor

\* a handler pushed cmd
Pushed(cmd) ==
    /\ undo_index < MaxStack
    /\ EdResult(push(EdState, cmd), "push", cmd)

\* the user picks another tool type in the combo box
select_tooltype(index) ==
    /\ index # comboBox_tooltype
    /\ undo_index < MaxStack
    /\ LET st == setCurrentIndex(EdState, index)
       IN  IF st.undo_index = undo_index
           THEN EdResult(st, "none", NoCommand)
           ELSE EdResult(st, "push", st.undo_stack[st.undo_index])

\* the user picks a kernel spec in the Python options widget;
\* spec_dict["execution_settings"] raises KeyError when there are no settings
_push_change_kernel_spec_command(new_kernel_spec) ==
    /\ spec_dict.tooltype = "python"
    /\ spec_dict.execution_settings.kind = "python"
    /\ LET previous_kernel_spec == spec_dict.execution_settings.kernel_spec_name
       IN  /\ new_kernel_spec # previous_kernel_spec
           /\ Pushed(Command("_set_kernel_spec", <<new_kernel_spec>>,
                             <<previous_kernel_spec>>, EdState))

\* the user edits the command of the Executable options widget
_push_change_executable_command(new_value) ==
    /\ spec_dict.tooltype = "executable"
    /\ spec_dict.execution_settings.kind = "executable"
    /\ LET old_value == spec_dict.execution_settings.cmd
       IN  /\ new_value # old_value
           /\ Pushed(Command("_set_cmd", <<new_value>>, <<old_value>>, EdState))

add_inputfiles(file_name) ==
    /\ Len(spec_dict.inputfiles) < MaxIoFiles
    /\ LET old_files == spec_dict.inputfiles
           new_files == old_files \o <<file_name>>
       IN  Pushed(Command("populate_inputfiles_list", new_files, old_files, EdState))

add_inputfiles_opt(file_name) ==
    /\ Len(spec_dict.inputfiles_opt) < MaxIoFiles
    /\ LET old_files == spec_dict.inputfiles_opt
           new_files == old_files \o <<file_name>>
       IN  Pushed(Command("populate_inputfiles_opt_list", new_files, old_files, EdState))

add_outputfiles(file_name) ==
    /\ Len(spec_dict.outputfiles) < MaxIoFiles
    /\ LET old_files == spec_dict.outputfiles
           new_files == old_files \o <<file_name>>
       IN  Pushed(Command("populate_outputfiles_list", new_files, old_files, EdState))

\* [f for f in old_files if f not in removed_files]
without(old_files, removed_files) == SelectSeq(old_files, LAMBDA f : f \notin removed_files)

\* indexes: the selected rows of the list, not empty
remove_inputfiles(indexes) ==
    /\ indexes # {}
    /\ indexes \subseteq 1..Len(spec_dict.inputfiles)
    /\ LET old_files == spec_dict.inputfiles
           removed_files == {old_files[i] : i \in indexes}
       IN  Pushed(Command("populate_inputfiles_list", without(old_files, removed_files),
                          old_files, EdState))

remove_inputfiles_opt(indexes) ==
    /\ indexes # {}
    /\ indexes \subseteq 1..Len(spec_dict.inputfiles_opt)
    /\ LET old_files == spec_dict.inputfiles_opt
           removed_files == {old_files[i] : i \in indexes}
       IN  Pushed(Command("populate_inputfiles_opt_list", without(old_files, removed_files),
                          old_files, EdState))

remove_outputfiles(indexes) ==
    /\ indexes # {}
    /\ indexes \subseteq 1..Len(spec_dict.outputfiles)
    /\ LET old_files == spec_dict.outputfiles
           removed_files == {old_files[i] : i \in indexes}
       IN  Pushed(Command("populate_outputfiles_list", without(old_files, removed_files),
                          old_files, EdState))

\* the user has renamed row `row` under the parent_row-th header to `text`
_push_io_file_renamed_command(parent_row, row, text) ==
    LET old_files == IF parent_row = 0 THEN spec_dict.inputfiles
                     ELSE IF parent_row = 1 THEN spec_dict.inputfiles_opt
                     ELSE spec_dict.outputfiles
        cb == IF parent_row = 0 THEN "populate_inputfiles_list"
              ELSE IF parent_row = 1 THEN "populate_inputfiles_opt_list"
              ELSE "populate_outputfiles_list"
    IN  /\ row \in 1..Len(old_files)
        /\ text # old_files[row]
        /\ Pushed(Command(cb, [old_files EXCEPT ![row] = text], old_files, EdState))

\* spec_dict.get("includes", []), joined with includes_main_path unless that is None
old_program_files_of(st) ==
    IF st.includes_main_path = NoPath THEN st.spec_dict.includes
    ELSE [k \in 1..Len(st.spec_dict.includes) |->
              join(st.includes_main_path, st.spec_dict.includes[k])]

\* the file dialog of browse_main_program_file / new_main_program_file
\* returned file_path
browse_main_program_file(file_path) ==
    /\ file_path # <<>>
    /\ EdResult(populate_main_programfile(EdState, file_path), "none", NoCommand)

_current_main_program_file(st) == st.main_item

\* the slot of the timer started by populate_main_programfile
_push_change_main_program_file_command ==
    /\ timers > 0
    /\ LET st == [EdState EXCEPT !.timers = @ - 1]
           new_value == _current_main_program_file(st)
           old_program_files == old_program_files_of(st)
           old_value == IF old_program_files # <<>> THEN old_program_files[1] ELSE <<>>
           new_program_files ==
               IF new_value = NoPath THEN <<>>
               ELSE IF old_program_files # <<>>
                      THEN [old_program_files EXCEPT ![1] = new_value]
                      ELSE <<new_value>>
           cmd == Command("_set_program_files", new_program_files, old_program_files, st)
       IN  IF new_value # NoPath /\ same_path(old_value, new_value)
           THEN EdResult(st, "none", NoCommand)
           ELSE /\ undo_index < MaxStack
                /\ EdResult(push(st, cmd), "push", cmd)

\* the new files that are neither listed already nor outside the main directory
_validate_additional_program_files(st, new_files, old_program_files) ==
    SelectSeq(new_files,
              LAMBDA file :
                  /\ \A k \in 1..Len(old_program_files) : old_program_files[k] # file
                  /\ \/ st.includes_main_path = NoPath
                     \/ commonprefix_is(st.includes_main_path, file, st.includes_main_path))

add_program_files(new_files) ==
    LET old_program_files == old_program_files_of(EdState)
        valid_files == _validate_additional_program_files(EdState, new_files, old_program_files)
    IN  /\ valid_files # <<>>
        /\ Len(old_program_files) + Len(valid_files) <= MaxProgramFiles
        /\ Pushed(Command("_set_program_files", old_program_files \o valid_files,
                          old_program_files, EdState))

\* the leaves _build_tree makes of the additional program files: the names
\* that are not a directory of another name
additional_leaves(st) ==
    {st.additional_items[k] : k \in 1..Len(st.additional_items)} \
    UNION {{SubSeq(st.additional_items[k], 1, n) :
                n \in 0..(Len(st.additional_items[k]) - 1)} :
           k \in 1..Len(st.additional_items)}

\* _show_status_bar_msg(msg) by a handler that pushes nothing
EdMessage(msg) ==
    /\ UNCHANGED <<spec_dict, includes_main_path, main_item, additional_items,
                   comboBox_tooltype, undo_stack, undo_index, timers, initial>>
    /\ last_op' = "none"
    /\ last_cmd' = NoCommand
    /\ last_pre' = Snapshot(EdState)
    /\ status_bar' = [msg |-> msg, arg |-> NoPath]
    /\ UNCHANGED <<programfile_documents, save_returned, save_super_ok, save_failing,
                   docs_before, attempted, shown_error, status_saved,
                   textEdit_document, textEdit_enabled, read_ok, load_report>>
    /\ UNCHANGED <<itemVars, mergerVars, purgeVars, fileVars, utilVars, tableVars>>

\* the selections of the program file tree: the main program item and leaves
\* under "Additional program files" (the two root items are not selectable)
Selections(st) == [main : BOOLEAN, additional : SUBSET additional_leaves(st)]

\* the selected leaves without the main program item
_selected_program_file_indexes(selection) == selection.additional

\* selection: what is selected in treeView_programfiles
remove_program_files(selection) ==
    LET indexes == _selected_program_file_indexes(selection)
        removed_files == indexes
        kept == SelectSeq(spec_dict.includes, LAMBDA f : f \notin removed_files)
        st == [EdState EXCEPT !.spec_dict.includes = kept]
    IN  /\ selection.main => main_item # NoPath
        /\ IF indexes = {}
             THEN EdMessage("Please select program files to remove")
             ELSE Pushed(Command("_set_program_files", old_program_files_of(st),
                                 old_program_files_of(EdState), EdState))

\* remove_all_program_files sparing the main program file
remove_all_additional_program_files ==
    IF main_item = NoPath /\ additional_leaves(EdState) = {}
      THEN EdMessage("No program files to remove")
      ELSE Pushed(Command("_set_program_files",
                          SubSeq(old_program_files_of(EdState), 1, 1),
                          old_program_files_of(EdState), EdState))

\* selectAll() selects the main program item and every additional program file
remove_all_program_files ==
    IF main_item = NoPath /\ additional_leaves(EdState) = {}
      THEN EdMessage("No program files to remove")
      ELSE Pushed(Command("_set_program_files", <<>>, old_program_files_of(EdState),
                          EdState))

\* the Undo action of the editor
Undo ==
    /\ undo_index > 0
    /\ EdResult(undo(EdState), "undo", undo_stack[undo_index])

\* the Redo action of the editor
Redo ==
    /\ undo_index < Len(undo_stack)
    /\ undo_index < MaxStack
    /\ EdResult(redo(EdState), "redo", undo_stack[undo_index + 1])

\* the input and output file lists, with the tool type sharing the undo stack
NextEditorIo ==
    \/ \E index \in 0..(Len(TOOL_TYPES) - 1) : select_tooltype(index)
    \/ \E name \in IoNames : add_inputfiles(name)
    \/ \E name \in IoNames : add_inputfiles_opt(name)
    \/ \E name \in IoNames : add_outputfiles(name)
    \/ \E indexes \in SUBSET (1..MaxIoFiles) : remove_inputfiles(indexes)
    \/ \E indexes \in SUBSET (1..MaxIoFiles) : remove_inputfiles_opt(indexes)
    \/ \E indexes \in SUBSET (1..MaxIoFiles) : remove_outputfiles(indexes)
    \/ \E parent_row \in 0..2, row \in 1..MaxIoFiles, text \in IoNames :
          _push_io_file_renamed_command(parent_row, row, text)
    \/ Undo
    \/ Redo

\* the tool type and the execution settings
NextEditorSettings ==
    \/ \E index \in 0..(Len(TOOL_TYPES) - 1) : select_tooltype(index)
    \/ \E k \in KernelSpecs : _push_change_kernel_spec_command(k)
    \/ \E text \in CmdTexts : _push_change_executable_command(text)
    \/ Undo
    \/ Redo

\* the program files
NextEditorFiles ==
    \/ \E file_path \in ProgramFiles : browse_main_program_file(file_path)
    \/ _push_change_main_program_file_command
    \/ \E file \in ProgramFiles : add_program_files(<<file>>)
    \/ \E selection \in Selections(EdState) : remove_program_files(selection)
    \/ remove_all_program_files
    \/ Undo
    \/ Redo

NextEditor == NextEditorIo \/ NextEditorSettings \/ NextEditorFiles

(***************************************************************************)
(* ToolSpecificationEditorWindow: the program file documents and _save     *)
(***************************************************************************)
\* _save_program_file: None, or the IOError raised by open() or write()
_save_program_file(file_path, failing) ==
    IF file_path \in failing THEN "IOError" ELSE None

RECURSIVE save_loop_marks_failed(_, _, _, _, _)
save_loop_marks_failed(docs, k, failing, saved, tried) ==
    IF k > Len(docs)
    THEN [docs |-> docs, saved |-> saved, tried |-> tried, error |-> NoPath]
    ELSE IF ~docs[k].modified
    THEN save_loop_marks_failed(docs, k + 1, failing, saved, tried)
    ELSE IF _save_program_file(docs[k].file_path, failing) = None
    THEN save_loop_marks_failed([docs EXCEPT ![k].modified = FALSE], k + 1, failing,
                                Append(saved, basename(docs[k].file_path)),
                                Append(tried, docs[k].file_path))
    ELSE [docs |-> [docs EXCEPT ![k].modified = FALSE], saved |-> saved,
          tried |-> Append(tried, docs[k].file_path),
          error |-> basename(docs[k].file_path)]

RECURSIVE save_loop(_, _, _, _, _)
\* the loop of _save over self._programfile_documents.items(), from the k-th
\* document on; it ends at the first document that cannot be written
save_loop(docs, k, failing, saved, tried) ==
    IF k > Len(docs)
    THEN [docs |-> docs, saved |-> saved, tried |-> tried, error |-> NoPath]
    ELSE IF ~docs[k].modified
    THEN save_loop(docs, k + 1, failing, saved, tried)
    ELSE IF _save_program_file(docs[k].file_path, failing) = None
    THEN save_loop([docs EXCEPT ![k].modified = FALSE], k + 1, failing,
                   Append(saved, basename(docs[k].file_path)),
                   Append(tried, docs[k].file_path))
    ELSE [docs |-> docs, saved |-> saved,
          tried |-> Append(tried, docs[k].file_path),
          error |-> basename(docs[k].file_path)]

\* nothing is left of the last _load_programfile_in_editor's report
no_load_report ==
    load_report' = [called |-> FALSE, file_path |-> NoPath, isfile |-> FALSE,
                    readable |-> FALSE, docs |-> <<>>]

\* super_ok: what super()._save() returned; failing: the files that cannot
\* be written
_save(super_ok, failing) ==
    /\ save_super_ok' = super_ok
    /\ save_failing' = failing
    /\ docs_before' = programfile_documents
    /\ IF ~super_ok
       THEN /\ save_returned' = "False"
            /\ attempted' = <<>>
            /\ shown_error' = NoPath
            /\ status_saved' = <<>>
            /\ UNCHANGED programfile_documents
       ELSE LET r == save_loop(programfile_documents, 1, failing, <<>>, <<>>)
            IN  /\ save_returned' = "True"
                /\ programfile_documents' = r.docs
                /\ attempted' = r.tried
                /\ shown_error' = r.error
                /\ status_saved' = IF r.error = NoPath THEN r.saved ELSE <<>>
    /\ status_bar' = IF status_saved' # <<>> THEN [msg |-> "saved", arg |-> NoPath]
                     ELSE status_bar
    /\ no_load_report
    /\ UNCHANGED <<textEdit_document, textEdit_enabled, read_ok>>
    /\ frameSave

\* nothing is left of the last _save's report
no_save_report ==
    /\ save_returned' = "none"
    /\ save_super_ok' = FALSE
    /\ save_failing' = {}
    /\ docs_before' = <<>>
    /\ attempted' = <<>>
    /\ shown_error' = NoPath
    /\ status_saved' = <<>>

\* the status bar shows nothing
NoMessage == [msg |-> "none", arg |-> NoPath]

has_document(docs, file_path) ==
    \E k \in 1..Len(docs) : docs[k].file_path = file_path

load_programfile_unread(ui, file_path, isfile, readable) ==
    IF ~isfile
    THEN [ui EXCEPT !.status_bar = [msg |-> "not valid", arg |-> file_path],
                    !.document = NoPath, !.enabled = FALSE]
    ELSE [ui EXCEPT !.docs = IF has_document(ui.docs, file_path) THEN @
                             ELSE Append(@, [file_path |-> file_path, modified |-> FALSE]),
                    !.document = file_path, !.enabled = TRUE]

\* the body of _load_programfile_in_editor on ui, the documents, the status
\* bar and the text editor: isfile is what os.path.isfile(file_path) gives,
\* readable whether open() and read() succeed
load_programfile(ui, file_path, isfile, readable) ==
    IF ~isfile
    THEN [ui EXCEPT !.status_bar = [msg |-> "not valid", arg |-> file_path],
                    !.document = NoPath, !.enabled = FALSE]
    ELSE IF ~has_document(ui.docs, file_path) /\ ~readable
    THEN [ui EXCEPT !.status_bar = [msg |-> "read error", arg |-> file_path]]
    ELSE [ui EXCEPT !.docs = IF has_document(ui.docs, file_path) THEN @
                             ELSE Append(@, [file_path |-> file_path, modified |-> FALSE]),
                    !.document = file_path, !.enabled = TRUE]

\* the user selects a program file in the tree
_load_programfile_in_editor(file_path, isfile, readable) ==
    LET ui == [docs |-> programfile_documents, status_bar |-> status_bar,
               document |-> textEdit_document, enabled |-> textEdit_enabled]
        r == load_programfile(ui, file_path, isfile, readable)
    IN  /\ programfile_documents' = r.docs
        /\ status_bar' = r.status_bar
        /\ textEdit_document' = r.document
        /\ textEdit_enabled' = r.enabled
        /\ read_ok' = IF isfile /\ readable /\ ~has_document(programfile_documents, file_path)
                      THEN read_ok \cup {file_path} ELSE read_ok
        /\ load_report' = [called |-> TRUE, file_path |-> file_path, isfile |-> isfile,
                           readable |-> readable, docs |-> programfile_documents]
        /\ no_save_report
        /\ frameSave

\* the user edits the text of the k-th document
edit_document(k) ==
    /\ k \in 1..Len(programfile_documents)
    /\ programfile_documents' = [programfile_documents EXCEPT ![k].modified = TRUE]
    /\ no_save_report
    /\ no_load_report
    /\ UNCHANGED <<status_bar, textEdit_document, textEdit_enabled, read_ok>>
    /\ frameSave

InitSave ==
    /\ programfile_documents = <<>>
    /\ save_returned = "none"
    /\ save_super_ok = FALSE
    /\ save_failing = {}
    /\ docs_before = <<>>
    /\ attempted = <<>>
    /\ shown_error = NoPath
    /\ status_saved = <<>>
    /\ status_bar = NoMessage
    /\ textEdit_document = NoPath
    /\ textEdit_enabled = FALSE
    /\ read_ok = {}
    /\ load_report = [called |-> FALSE, file_path |-> NoPath, isfile |-> FALSE,
                      readable |-> FALSE, docs |-> <<>>]

NextSave ==
    \/ \E file_path \in ProgramFiles, isfile \in BOOLEAN, readable \in BOOLEAN :
          _load_programfile_in_editor(file_path, isfile, readable)
    \/ \E k \in 1..Cardinality(ProgramFiles) : edit_document(k)
    \/ \E super_ok \in BOOLEAN, failing \in SUBSET ProgramFiles : _save(super_ok, failing)

(***************************************************************************)
(* _file_label and FileListItem.from_resource called on their own           *)
(***************************************************************************)
LabelResourceTypes == {"file", "database", "transient_file", "file_pattern", "unknown"}

\* resources of every type; a file has a path and the url of that path, a
\* database a url, the other types a url with a path or neither
LabelResources ==
    {r \in [type_ : LabelResourceTypes, path : {"", "a"}, url : {None, "db", "file:a"},
            label : {None, "x", ""}, provider : {"P", "Q"}] :
        /\ r.type_ = "database" => (r.url = "db" /\ r.path = "")
        /\ r.type_ # "database" => r.url # "db"
        /\ r.type_ = "file" => r.url = "file:a"
        /\ (r.url = "file:a") <=> (r.path = "a")}

NoLabelCall == [fn |-> "none", raised |-> FALSE, label |-> None, found |-> FALSE]

\* label = _file_label(resource)
call_file_label ==
    /\ label_call' = [fn |-> "_file_label",
                      raised |-> _file_label(label_resource).raised,
                      label |-> _file_label(label_resource).label,
                      found |-> FALSE]
    /\ UNCHANGED <<label_resource, data_dir_listing, manifests_call>>
    /\ UNCHANGED <<exportVars, dbVars>>
    /\ frameUtil

\* item = FileListItem.from_resource(resource)
call_from_resource ==
    /\ label_call' = [fn |-> "from_resource",
                      raised |-> from_resource(0, label_resource).raised,
                      label |-> from_resource(0, label_resource).item.label,
                      found |-> FALSE]
    /\ UNCHANGED <<label_resource, data_dir_listing, manifests_call>>
    /\ UNCHANGED <<exportVars, dbVars>>
    /\ frameUtil

\* models.py:179,184-186 on a list holding the item from_resource made
call_lookup ==
    LET made == from_resource(0, label_resource)
    IN  /\ ~made.raised
        /\ label_call' =
             [fn |-> "lookup", raised |-> _file_label(label_resource).raised,
              label |-> _file_label(label_resource).label,
              found |-> items_by_label(<<made.item>>,
                                       _file_label(label_resource).label) # None]
        /\ UNCHANGED <<label_resource, data_dir_listing, manifests_call>>
    /\ UNCHANGED <<exportVars, dbVars>>
        /\ frameUtil

InitLabelCalls ==
    /\ label_resource \in LabelResources
    /\ label_call = NoLabelCall

NextLabels == call_file_label \/ call_from_resource \/ call_lookup

(***************************************************************************)
(* utils.py: collect_execution_manifests                                    *)
(***************************************************************************)
MaxManifestFiles == 2
MaxManifestPaths == 1

\* the item's data directory
data_dir == <<"/", "dd">>

EXPORTER_EXECUTION_MANIFEST_FILE_PREFIX == ".export-manifest"

\* the names of the files in data_dir
DirNames == {".export-manifest.json", ".export-manifest-2.json",
             ".export-manifest.txt", "results.json"}

\* name.startswith(prefix), for the names of DirNames
startswith(name, prefix) ==
    /\ prefix = ".export-manifest"
    /\ name \in {".export-manifest.json", ".export-manifest-2.json", ".export-manifest.txt"}

\* Path(name).suffix, for the names of DirNames
suffix(name) == IF name = ".export-manifest.txt" THEN ".txt" ELSE ".json"

\* a dict: a function on its keys
EmptyDict == [k \in {} |-> <<>>]

OutputNames == {"a", "b"}

\* the paths the manifests hold: relative, absolute under data_dir, absolute
\* elsewhere with and without an 'output' component
ManifestPaths == {<<"f">>, <<"/", "dd", "f">>, <<"/", "old", "output", "f">>,
                  <<"/", "old", "f">>}

PathLists(paths, n) == UNION {[1..k -> paths] : k \in 1..n}

Dicts(keys, values) == UNION {[ks -> values] : ks \in SUBSET keys}

\* the directories: files of distinct names, the manifests with a content
Directories(n, contents) ==
    {d \in UNION {[1..k -> [name : DirNames, manifest : contents]] : k \in 0..n} :
        /\ \A i, j \in 1..Len(d) : i # j => d[i].name # d[j].name
        /\ \A i \in 1..Len(d) :
             ~(startswith(d[i].name, EXPORTER_EXECUTION_MANIFEST_FILE_PREFIX)
               /\ suffix(d[i].name) = ".json") => d[i].manifest = EmptyDict}

\* Path.relative_to, utils.py:166; raised: ValueError
relative_to(p, base) ==
    IF Len(p) >= Len(base) /\ SubSeq(p, 1, Len(base)) = base
      THEN [raised |-> FALSE, path |-> SubSeq(p, Len(base) + 1, Len(p))]
      ELSE [raised |-> TRUE, path |-> <<>>]

RECURSIVE dropwhile_not_output(_)
\* utils.py:171: dropwhile(lambda part: part != "output", p.parts)
dropwhile_not_output(parts) ==
    IF parts = <<>> \/ Head(parts) = "output" THEN parts
    ELSE dropwhile_not_output(Tail(parts))

\* utils.py:160-174: the relative_paths built from the paths of one name
relative_paths_of(paths) ==
    [k \in 1..Len(paths) |->
        IF isabs(paths[k])
          THEN IF relative_to(paths[k], data_dir).raised
                 THEN dropwhile_not_output(paths[k])
                 ELSE relative_to(paths[k], data_dir).path
          ELSE paths[k]]

\* utils.py:175-177: manifests.setdefault(out_file_name, list()).extend(paths)
setdefault_extend(manifests, out_file_name, paths) ==
    [k \in DOMAIN manifests \cup {out_file_name} |->
        (IF k \in DOMAIN manifests THEN manifests[k] ELSE <<>>)
        \o (IF k = out_file_name THEN paths ELSE <<>>)]

RECURSIVE manifest_items_loop(_, _, _)
\* utils.py:158-177: for out_file_name, paths in manifest.items()
manifest_items_loop(manifest, todo, st) ==
    IF todo = {} THEN st
    ELSE LET out_file_name == CHOOSE k \in todo : TRUE
             relative_paths == relative_paths_of(manifest[out_file_name])
         IN  manifest_items_loop(manifest, todo \ {out_file_name},
               [none |-> FALSE,
                dict |-> setdefault_extend(st.dict, out_file_name,
                                           manifest[out_file_name])])

RECURSIVE collect_loop(_, _)
\* utils.py:156-177: for path in Path(data_dir).iterdir()
collect_loop(listing, st) ==
    IF listing = <<>> THEN st
    ELSE LET path == Head(listing)
         IN  IF /\ startswith(path.name, EXPORTER_EXECUTION_MANIFEST_FILE_PREFIX)
                /\ suffix(path.name) = ".json"
               THEN collect_loop(Tail(listing),
                      manifest_items_loop(path.manifest, DOMAIN path.manifest, st))
               ELSE collect_loop(Tail(listing), st)

\* utils.py:147-180; none: the function returned None
collect_execution_manifests(listing) ==
    collect_loop(listing, [none |-> TRUE, dict |-> EmptyDict])

NoManifestsCall == [called |-> FALSE, none |-> TRUE, dict |-> EmptyDict]

call_collect_execution_manifests ==
    /\ ~manifests_call.called
    /\ manifests_call' =
         [called |-> TRUE,
          none |-> collect_execution_manifests(data_dir_listing).none,
          dict |-> collect_execution_manifests(data_dir_listing).dict]
    /\ UNCHANGED <<label_resource, label_call, data_dir_listing>>
    /\ UNCHANGED <<exportVars, dbVars>>
    /\ frameUtil

ManifestDirectories ==
    Directories(MaxManifestFiles,
                Dicts(OutputNames, PathLists(ManifestPaths, MaxManifestPaths)))

InitManifestCalls ==
    /\ data_dir_listing \in ManifestDirectories
    /\ manifests_call = NoManifestsCall

NextManifests == call_collect_execution_manifests

(***************************************************************************)
(* utils.py: Database and exported_files_as_resources                       *)
(***************************************************************************)
MaxDatabases == 2
MaxExportDirFiles == 1

\* Database, utils.py:46-56
Database(url, output_file_name) == [url |-> url, output_file_name |-> output_file_name]

\* spine_engine's file_resource_in_pack(provider_name, label, file_path)
file_resource_in_pack(provider_name, label, file_path) ==
    [type_ |-> "file_pack", provider |-> provider_name, label |-> label, path |-> file_path]

\* spine_engine's transient_file_resource(provider_name, label)
transient_file_resource(provider_name, label) ==
    [type_ |-> "transient_file", provider |-> provider_name, label |-> label, path |-> NoPath]

\* Path(data_dir, f), utils.py:128
Path(dir, f) == IF isabs(f) THEN f ELSE dir \o f

\* the relative paths of the manifests and the files they may name
ExportPaths == {<<"f">>, <<"g">>}
ExportedPaths == {Path(data_dir, f) : f \in ExportPaths}

\* an optional dict: None or a dict
NoneDict == [none |-> TRUE, dict |-> EmptyDict]
SomeDict(d) == [none |-> FALSE, dict |-> d]

\* exported_files.get(name, [])
get(d, name) == IF name \in DOMAIN d THEN d[name] ELSE <<>>

\* the elements of a set in the order a set iterates them: that of `order`
iterate(set, order) == SelectSeq(order, LAMBDA f : f \in set)

RECURSIVE databases_loop(_, _, _, _, _, _)
\* utils.py:131-137 (found: the set `files`); order: the iteration order of sets of paths
databases_loop(item_name, exported_files, exists, dbs, order, resources) ==
    IF dbs = <<>> THEN resources
    ELSE LET db == Head(dbs)
             found == {get(exported_files, db.output_file_name)[k] :
                          k \in {i \in 1..Len(get(exported_files, db.output_file_name)) :
                                   get(exported_files, db.output_file_name)[i] \in exists}}
             in_pack == iterate(found, order)
         IN  databases_loop(item_name, exported_files, exists, Tail(dbs), order,
               IF db.output_file_name = "" THEN resources
               ELSE IF found # {}
                 THEN [k \in 1..Len(in_pack) |->
                          file_resource_in_pack(item_name, db.output_file_name, in_pack[k])]
                 ELSE Append(resources,
                             transient_file_resource(item_name, db.output_file_name)))

RECURSIVE transient_loop(_, _, _)
\* utils.py:139-141
transient_loop(item_name, dbs, resources) ==
    IF dbs = <<>> THEN resources
    ELSE transient_loop(item_name, Tail(dbs),
           IF Head(dbs).output_file_name = "" THEN resources
           ELSE Append(resources,
                       transient_file_resource(item_name, Head(dbs).output_file_name)))

\* utils.py:110-144; listing: the files of data_dir
exported_files_as_resources(item_name, exported_files, listing, exists, dbs, order) ==
    LET manifests == collect_execution_manifests(listing)
        names == {dbs[k].output_file_name : k \in 1..Len(dbs)}
        kept == DOMAIN manifests.dict \cap names
        updated ==
            IF manifests.none THEN exported_files
            ELSE SomeDict([name \in kept |->
                             [k \in 1..Len(manifests.dict[name]) |->
                                 Path(data_dir, manifests.dict[name][k])]])
    IN  [resources |-> IF updated.none THEN transient_loop(item_name, dbs, <<>>)
                       ELSE databases_loop(item_name, updated.dict, exists, dbs, order, <<>>),
         exported_files |-> updated]

NoExportCall == [called |-> FALSE, resources |-> <<>>, exported_files |-> NoneDict]

Orders(set) == {q \in [1..Cardinality(set) -> set] : \A i, j \in 1..Len(q) : i # j => q[i] # q[j]}

call_exported_files_as_resources(order) ==
    /\ ~export_call.called
    /\ LET out == exported_files_as_resources("item", export_cache, data_dir_listing,
                                              existing_paths, export_databases, order)
       IN  export_call' = [called |-> TRUE, resources |-> out.resources,
                           exported_files |-> out.exported_files]
    /\ UNCHANGED <<label_resource, label_call, data_dir_listing, manifests_call,
                   export_cache, export_databases, existing_paths, dbVars>>
    /\ frameUtil

InitExportCalls ==
    /\ data_dir_listing \in Directories(MaxExportDirFiles,
                                        Dicts(OutputNames, PathLists(ExportPaths, 1)))
    /\ export_cache \in {NoneDict} \cup
                        {SomeDict(d) : d \in Dicts(OutputNames, PathLists(ExportedPaths, 1))}
    /\ export_databases \in UNION {[1..n -> {Database("", name) : name \in OutputNames \cup {""}}] :
                                     n \in 0..MaxDatabases}
    /\ existing_paths \in SUBSET ExportedPaths
    /\ export_call = NoExportCall

NextExport == \E order \in Orders(ExportedPaths) : call_exported_files_as_resources(order)

NoExport ==
    /\ export_cache = NoneDict
    /\ export_databases = <<>>
    /\ existing_paths = {}
    /\ export_call = NoExportCall

(***************************************************************************)
(* utils.py: Database.to_dict and Database.from_dict                        *)
(***************************************************************************)
DatabaseUrls == {"", "sqlite:///u", "sqlite:///v"}
OutputFileNames == {"", "a", "b"}

\* Database.to_dict, utils.py:57-64
to_dict(database) == [output_file_name |-> database.output_file_name]

\* from_dict that forgets to set the output file name
from_dict_default(database_dict) == Database("", "")

\* Database.from_dict, utils.py:66-79
from_dict(database_dict) ==
    LET new == Database("", "")
    IN  [new EXCEPT !.output_file_name = database_dict.output_file_name]

NoRoundTrip ==
    [stage |-> "none", of |-> Database("", ""), dict |-> to_dict(Database("", "")),
     copy |-> Database("", ""), again |-> to_dict(Database("", ""))]

frameDatabase ==
    /\ UNCHANGED <<label_resource, label_call, data_dir_listing, manifests_call, exportVars>>
    /\ frameUtil

\* db.url = url
set_url(url) ==
    /\ db_instance' = [db_instance EXCEPT !.url = url]
    /\ db_instance' # db_instance
    /\ UNCHANGED round_trip
    /\ frameDatabase

\* db.output_file_name = output_file_name
set_output_file_name(output_file_name) ==
    /\ db_instance' = [db_instance EXCEPT !.output_file_name = output_file_name]
    /\ db_instance' # db_instance
    /\ UNCHANGED round_trip
    /\ frameDatabase

\* database_dict = db.to_dict()
call_to_dict ==
    /\ round_trip' = [NoRoundTrip EXCEPT !.stage = "to_dict", !.of = db_instance, !.dict = to_dict(db_instance)]
    /\ UNCHANGED db_instance
    /\ frameDatabase

\* copy = Database.from_dict(database_dict)
call_from_dict ==
    /\ round_trip.stage = "to_dict"
    /\ round_trip' = [round_trip EXCEPT !.stage = "from_dict",
                                        !.copy = from_dict(round_trip.dict)]
    /\ UNCHANGED db_instance
    /\ frameDatabase

\* copy.to_dict()
call_to_dict_again ==
    /\ round_trip.stage = "from_dict"
    /\ round_trip' = [round_trip EXCEPT !.stage = "again",
                                        !.again = to_dict(round_trip.copy)]
    /\ UNCHANGED db_instance
    /\ frameDatabase

NextDatabase ==
    \/ \E url \in DatabaseUrls : set_url(url)
    \/ \E name \in OutputFileNames : set_output_file_name(name)
    \/ call_to_dict
    \/ call_from_dict
    \/ call_to_dict_again

\* Database(), utils.py:52-55
InitDatabase ==
    /\ db_instance = Database("", "")
    /\ round_trip = NoRoundTrip

(***************************************************************************)
(* importer: SourceDataTableModel                                           *)
(***************************************************************************)
\* the rows and columns of the tables, numbered from 0
RowNumbers == {0, 1}
ColumnNumbers == {0, 1}

CellValues == {"1", "Not a valid number"}

\* value_to_convert_spec(name) for these names
ConvertSpecs == {"float", "string"}

\* the convert function of a spec raises no error on value
converts(convert_spec, value) ==
    IF convert_spec = "float" THEN value = "1" ELSE TRUE

\* tables of one or two rows and one or two columns
Tables ==
    UNION {[1..nr -> [1..nc -> CellValues]] :
              nr \in 1..Cardinality(RowNumbers), nc \in 1..Cardinality(ColumnNumbers)}

rowCount(table) == Len(table)
columnCount(table) == IF table = <<>> THEN 0 ELSE Len(table[1])

\* the cell at 0-based (row, column)
cell(table, row, column) == table[row + 1][column + 1]

\* a position that refers to no row or column
NoPosition == 0 - 1

\* no mapping is selected: the mapping list index is invalid
NoMapping ==
    [valid |-> FALSE, name |-> NoPosition, object |-> NoPosition,
     read_start_row |-> 0, skip_columns |-> {}]

\* the object class mappings a test selects, as the dicts given to
\* import_mapping_from_dict: "name" is the column of the class names,
\* "object" the value_reference of a "row" (pivoted) mapping, NoPosition
\* where the dict has no such key; skip_columns matter to pivoted rows only
Mappings ==
    {NoMapping} \cup
    {m \in [valid : {TRUE}, name : ColumnNumbers \cup {NoPosition},
            object : RowNumbers \cup {NoPosition}, read_start_row : RowNumbers,
            skip_columns : SUBSET ColumnNumbers] :
        /\ m.skip_columns # ColumnNumbers
        /\ m.object = NoPosition => m.skip_columns = {}}

\* the mappings the tests of the type checks select: none, one with a pivoted
\* row, one that starts reading at a row
TypeCheckMappings ==
    {m \in Mappings : m.name = NoPosition /\ m.skip_columns = {}
                        /\ (m.object = NoPosition \/ m.read_start_row = 0)}

\* the display colors of the flattened mapping, found by display name
entity_class_color == "color of Object class names"
entity_color == "color of Object names"

\* the components of the flattened mapping in display order
flattened_mappings(mapping) ==
    <<[display_name |-> "Object class names", display_color |-> entity_class_color,
       position |-> IF mapping.name = NoPosition THEN "hidden" ELSE "column",
       reference |-> mapping.name],
      [display_name |-> "Object names", display_color |-> entity_color,
       position |-> IF mapping.object = NoPosition THEN "hidden" ELSE "row",
       reference |-> mapping.object]>>

\* the rows that some component pivots, the columns that some component maps
pivoted_rows(mapping) ==
    {flattened_mappings(mapping)[k].reference :
        k \in {i \in 1..2 : flattened_mappings(mapping)[i].position = "row"}}
non_pivoted_columns(mapping) ==
    {flattened_mappings(mapping)[k].reference :
        k \in {i \in 1..2 : flattened_mappings(mapping)[i].position = "column"}}

\* a column component colors its column whatever row is pivoted
index_in_mapping_unpivoted(mapping, component, index) ==
    IF component.position = "column"
      THEN index[2] = component.reference /\ index[1] >= mapping.read_start_row
      ELSE IF component.position = "row"
        THEN /\ index[1] = component.reference
             /\ index[2] \notin mapping.skip_columns
             /\ index[2] \notin {flattened_mappings(mapping)[k].reference :
                    k \in {i \in 1..2 : flattened_mappings(mapping)[i].position = "column"}}
        ELSE FALSE

\* the cell at index = (row, column) belongs to the component
index_in_mapping(mapping, component, index) ==
    IF component.position = "column"
      THEN /\ index[2] = component.reference
           /\ index[1] >= mapping.read_start_row
           /\ index[1] \notin pivoted_rows(mapping)
      ELSE IF component.position = "row"
        THEN /\ index[1] = component.reference
             /\ index[2] \notin mapping.skip_columns
             /\ index[2] \notin non_pivoted_columns(mapping)
        ELSE FALSE

\* SourceDataTableModel.reset_model on a new model
reset_model(table) ==
    /\ main_data = <<>>
    /\ main_data' = table
    /\ UNCHANGED <<column_types, row_types, _column_type_errors, _row_type_errors,
                   mapping_list_index>>
    /\ frameTable

\* validate with the indexes of a row check the wrong way round
failing_cells_as_columns(table, section, convert_spec, orientation) ==
    IF orientation = "Horizontal"
      THEN {<<row, section>> : row \in {r \in 0..(Len(table) - 1) :
                                          ~converts(convert_spec, table[r + 1][section + 1])}}
      ELSE {<<column, section>> : column \in {c \in 0..(Len(table[1]) - 1) :
                                          ~converts(convert_spec, table[section + 1][c + 1])}}

\* validate(section, orientation): the cells of the section that do not convert
failing_cells(table, section, convert_spec, orientation) ==
    IF orientation = "Horizontal"
      THEN {<<row, section>> : row \in {r \in 0..(rowCount(table) - 1) :
                                          ~converts(convert_spec, cell(table, r, section))}}
      ELSE {<<section, column>> : column \in {c \in 0..(columnCount(table) - 1) :
                                          ~converts(convert_spec, cell(table, section, c))}}

\* SourceDataTableModel.set_type(section, convert_spec, orientation)
set_type(section, convert_spec, orientation) ==
    /\ section \in 0..((IF orientation = "Horizontal" THEN columnCount(main_data)
                        ELSE rowCount(main_data)) - 1)
    /\ IF orientation = "Horizontal"
         THEN /\ column_types' = [c \in DOMAIN column_types \cup {section} |->
                                     IF c = section THEN convert_spec ELSE column_types[c]]
              /\ _column_type_errors' =
                   {c \in _column_type_errors : c[2] # section}
                   \cup failing_cells(main_data, section, convert_spec, orientation)
              /\ UNCHANGED <<row_types, _row_type_errors>>
         ELSE /\ row_types' = [r \in DOMAIN row_types \cup {section} |->
                                  IF r = section THEN convert_spec ELSE row_types[r]]
              /\ _row_type_errors' =
                   {c \in _row_type_errors : c[1] # section}
                   \cup failing_cells(main_data, section, convert_spec, orientation)
              /\ UNCHANGED <<column_types, _column_type_errors>>
    /\ UNCHANGED <<main_data, mapping_list_index>>
    /\ frameTable

\* SourceDataTableModel.set_mapping_list_index
set_mapping_list_index(mapping) ==
    /\ main_data # <<>>
    /\ mapping.object < rowCount(main_data)
    /\ mapping.read_start_row < rowCount(main_data)
    /\ mapping.name < columnCount(main_data)
    /\ \A column \in mapping.skip_columns : column < columnCount(main_data)
    /\ mapping # mapping_list_index
    /\ mapping_list_index' = mapping
    /\ UNCHANGED <<main_data, column_types, row_types, _column_type_errors,
                   _row_type_errors>>
    /\ frameTable

\* SourceDataTableModel.data(index, Qt.DisplayRole), index = (row, column)
data(table, mapping, column_errors, row_errors, index) == cell(table, index[1], index[2])

\* SourceDataTableModel.data(index, Qt.BackgroundRole): the display color of the
\* first component of the selected mapping that the cell belongs to
data_color(table, mapping, index) ==
    IF ~mapping.valid THEN None
    ELSE LET components == flattened_mappings(mapping)
             found == {k \in 1..Len(components) :
                          index_in_mapping(mapping, components[k], index)}
         IN  IF found = {} THEN None
             ELSE components[CHOOSE k \in found : \A j \in found : k <= j].display_color

\* SourceDataTableModel()
InitTable ==
    /\ main_data = <<>>
    /\ column_types = EmptyDict
    /\ row_types = EmptyDict
    /\ _column_type_errors = {}
    /\ _row_type_errors = {}
    /\ mapping_list_index = NoMapping

NextTable ==
    \/ \E table \in Tables : reset_model(table)
    \/ \E section \in RowNumbers \cup ColumnNumbers, convert_spec \in ConvertSpecs,
          orientation \in {"Horizontal", "Vertical"} :
          set_type(section, convert_spec, orientation)
    \/ \E mapping \in TypeCheckMappings : set_mapping_list_index(mapping)

\* the tests of the colors select mappings and set no types
NextColors ==
    \/ \E table \in Tables : reset_model(table)
    \/ \E mapping \in Mappings : set_mapping_list_index(mapping)

\* no function is being called on its own
InitUtil ==
    /\ label_resource = [type_ |-> "file", path |-> "a", url |-> "file:a",
                         label |-> None, provider |-> "P"]
    /\ label_call = NoLabelCall
    /\ data_dir_listing = <<>>
    /\ manifests_call = NoManifestsCall
    /\ NoExport
    /\ InitDatabase
    /\ InitTable

(***************************************************************************)
(* Initial state and specifications                                        *)
(***************************************************************************)
Init ==
    InitItem /\ InitMerger /\ InitPurge /\ InitFiles /\ InitEditor /\ InitSave /\ InitUtil

\* the threads in execute() and in stop_execution() keep running; nothing
\* makes the subprocess end on its own
SpecMerger ==
    /\ Init
    /\ [][NextMerger]_vars
    /\ WF_vars(ExecSteps)
    /\ WF_vars(StopSteps)

SpecPurge == Init /\ [][NextPurge]_vars

InitFileList ==
    /\ cancel_on_error = FALSE
    /\ purge_before_writing = FALSE
    /\ InitMerger
    /\ InitPurge
    /\ InitFilesAny
    /\ InitEditor
    /\ InitSave
    /\ InitUtil

SpecFiles == InitFileList /\ [][NextFiles]_vars

\* an editor opened without a specification or with a Python tool's
InitEditorWindow ==
    /\ cancel_on_error = FALSE
    /\ purge_before_writing = FALSE
    /\ InitMerger
    /\ InitPurge
    /\ InitFiles
    /\ InitEditor \/ InitEditorWith(PythonSpecification)
    /\ InitSave
    /\ InitUtil

SpecEditorIo == InitEditorWindow /\ [][NextEditorIo]_vars

SpecEditorSettings == InitEditorWindow /\ [][NextEditorSettings]_vars

SpecEditorFiles == InitEditorWindow /\ [][NextEditorFiles]_vars

\* an editor without a specification and without documents
InitDocuments ==
    /\ cancel_on_error = FALSE
    /\ purge_before_writing = FALSE
    /\ InitMerger
    /\ InitPurge
    /\ InitFiles
    /\ InitEditor
    /\ InitSave
    /\ InitUtil

SpecSave == InitDocuments /\ [][NextSave]_vars

\* the functions called on their own, on any resource
InitLabels ==
    /\ cancel_on_error = FALSE
    /\ purge_before_writing = FALSE
    /\ InitMerger
    /\ InitPurge
    /\ InitFiles
    /\ InitEditor
    /\ InitSave
    /\ InitLabelCalls
    /\ data_dir_listing = <<>>
    /\ manifests_call = NoManifestsCall
    /\ NoExport
    /\ InitDatabase
    /\ InitTable

SpecLabels == InitLabels /\ [][NextLabels]_vars

\* collect_execution_manifests called on any data directory
InitManifests ==
    /\ cancel_on_error = FALSE
    /\ purge_before_writing = FALSE
    /\ InitMerger
    /\ InitPurge
    /\ InitFiles
    /\ InitEditor
    /\ InitSave
    /\ label_resource = [type_ |-> "file", path |-> "a", url |-> "file:a",
                         label |-> None, provider |-> "P"]
    /\ label_call = NoLabelCall
    /\ InitManifestCalls
    /\ NoExport
    /\ InitDatabase
    /\ InitTable

SpecManifests == InitManifests /\ [][NextManifests]_vars

\* exported_files_as_resources called on any cache, directory and databases
InitExport ==
    /\ cancel_on_error = FALSE
    /\ purge_before_writing = FALSE
    /\ InitMerger
    /\ InitPurge
    /\ InitFiles
    /\ InitEditor
    /\ InitSave
    /\ label_resource = [type_ |-> "file", path |-> "a", url |-> "file:a",
                         label |-> None, provider |-> "P"]
    /\ label_call = NoLabelCall
    /\ manifests_call = NoManifestsCall
    /\ InitExportCalls
    /\ InitDatabase
    /\ InitTable

SpecExport == InitExport /\ [][NextExport]_vars

SpecDatabase == Init /\ [][NextDatabase]_vars

\* a new SourceDataTableModel
InitSourceTable ==
    /\ cancel_on_error = FALSE
    /\ purge_before_writing = FALSE
    /\ InitMerger
    /\ InitPurge
    /\ InitFiles
    /\ InitEditor
    /\ InitSave
    /\ InitUtil

SpecTable == InitSourceTable /\ [][NextTable]_vars
SpecColors == InitSourceTable /\ [][NextColors]_vars

Next == NextMerger \/ NextPurge \/ NextFiles \/ NextEditor \/ NextSave \/ NextLabels \/ NextManifests \/ NextExport
            \/ NextDatabase \/ NextTable

Spec == Init /\ [][Next]_vars

(***************************************************************************)
(* Claims                                                                  *)
(***************************************************************************)
\* execute() went through the with block and returned
RanMerge ==
    /\ pcExec = "returned"
    /\ callOk
    /\ from_resources # <<>>
    /\ to_resources # <<>>

\* C1: when super().execute() succeeds and there are forward and backward
\* database resources, a returned execute() has run do_work in a subprocess
\* that has ended by then, and the finish state is SUCCESS exactly when the
\* first element of the subprocess's return value is true, else FAILURE.
C1_ExecuteReportsSubprocessResult ==
    RanMerge =>
        /\ procState \in {"finished", "terminated"}
        /\ return_value = (procState = "finished" /\ procFlag)
        /\ result = IF return_value THEN "SUCCESS" ELSE "FAILURE"

C1_Witness ==
    /\ RanMerge
    /\ procState = "finished"
    /\ ~procFlag
    /\ result = "FAILURE"

StopReturned == pcStop \in {"done", "raised"}

\* C2 as stated: a stop_execution() called while execute() waits on the
\* subprocess terminates it exactly once and leaves _process None (execute()
\* then returns); called while no subprocess runs, it terminates nothing.
C2_Original ==
    (StopReturned /\ pcExec = "returned") =>
        /\ stopAtPc = "waiting" => (nKilled = 1 /\ process = "None")
        /\ stopAtProc # "running" => nKilled = 0

\* C2, amended: a stop_execution() called while execute() waits on the
\* subprocess terminates it at most once, and not at all only when the
\* subprocess had already ended by itself when terminate() was reached; it
\* leaves _process None, and execute() returns afterwards.  A stop_execution()
\* that finds _process None terminates nothing.
C2_StopTerminatesAtMostOnce ==
    /\ [](nKilled <= 1)
    /\ []((stopAtPc = "waiting" /\ StopReturned) =>
            /\ process = "None"
            /\ nKilled = 0 => procState = "finished")
    /\ ((stopAtPc = "waiting") ~> (pcExec = "returned"))
    /\ []((stopAtPc \in {"idle", "open", "decide", "returned", "raised"}) =>
            (pcStop = "done" /\ nKilled = 0))

C2_Witness ==
    /\ stopAtPc = "waiting"
    /\ pcStop = "done"
    /\ nKilled = 1
    /\ procState = "terminated"
    /\ pcExec = "returned"
    /\ result = "FAILURE"

\* C3: when execute() has returned or raised, nothing it opened is still
\* open, and everything it opened has been closed once.
C3_NothingLeftOpen ==
    pcExec \in {"returned", "raised"} =>
        /\ opened = <<>>
        /\ Len(closedLog) = Cardinality({closedLog[k] : k \in 1..Len(closedLog)})
        /\ pcExec = "returned" /\ RanMerge =>
             closedLog = Reverse(Urls(from_resources) \o Urls(to_resources))

\* an open() raised after earlier resources had been opened
C3_Witness ==
    /\ pcExec = "raised"
    /\ closedLog # <<>>
    /\ opened = <<>>

\* C4: execute_unfiltered() returns False when the base call fails; True,
\* purging nothing, when purge_before_writing is false; else it purges the
\* backward database urls in order: with cancel_on_error it stops at the first
\* failed purge and returns False, without it it purges them all and returns
\* True.
C4_ExecuteUnfiltered ==
    ufCalled =>
        LET dbs == SelectSeq(ufBackward, LAMBDA r : r.type_ = "database")
            urls == [k \in 1..Len(dbs) |-> dbs[k].url]
            bad == {k \in 1..Len(urls) : urls[k] \in ufFailing}
        IN  IF ~ufBaseOk THEN ufResult = FALSE /\ ufPurged = <<>>
            ELSE IF ~purge_before_writing THEN ufResult = TRUE /\ ufPurged = <<>>
            ELSE IF cancel_on_error /\ bad # {}
                   THEN LET first == CHOOSE k \in bad : \A j \in bad : k <= j
                        IN  /\ ufResult = FALSE
                            /\ ufPurged = SubSeq(urls, 1, first)
                   ELSE /\ ufResult = TRUE
                        /\ ufPurged = urls

\* a failed purge with cancel_on_error, a later url left unpurged
C4_Witness ==
    /\ ufCalled /\ ufBaseOk /\ purge_before_writing /\ cancel_on_error
    /\ ufResult = FALSE
    /\ Len(ufPurged) < Len(database_resources(ufBackward))

\* C5: no two items of a FileListModel carry the same label, and no item
\* object appears twice in the list.
C5_LabelsDistinct ==
    \A i, j \in 1..Len(files) :
        i # j => (files[i].label # files[j].label /\ files[i].id # files[j].id)

IoCallbacks ==
    {"populate_inputfiles_list", "populate_inputfiles_opt_list", "populate_outputfiles_list"}

\* the list of spec_dict sd that callback cb sets
IoListOf(sd, cb) ==
    IF cb = "populate_inputfiles_list" THEN sd.inputfiles
    ELSE IF cb = "populate_inputfiles_opt_list" THEN sd.inputfiles_opt
    ELSE sd.outputfiles

IoLists(sd) == <<sd.inputfiles, sd.inputfiles_opt, sd.outputfiles>>

\* C6: a command pushed for the input, optional input or output file list,
\* when applied (pushed or redone), sets its list to the new list and leaves
\* the other two lists alone; undoing it restores the three lists as they were
\* before the push; commands of other kinds leave the three lists alone; and
\* when every command has been undone the three lists are the initial ones.
C6_IoCommandsReversible ==
    /\ (last_op \in {"push", "redo"} /\ last_cmd.cb \in IoCallbacks) =>
          /\ IoListOf(spec_dict, last_cmd.cb) = last_cmd.new
          /\ \A cb \in IoCallbacks \ {last_cmd.cb} :
                IoListOf(spec_dict, cb) = IoListOf(last_pre.spec_dict, cb)
    /\ (last_op = "undo" /\ last_cmd.cb \in IoCallbacks) =>
          /\ IoLists(spec_dict) = IoLists(last_cmd.before.spec_dict)
          /\ \A cb \in IoCallbacks \ {last_cmd.cb} :
                IoListOf(spec_dict, cb) = IoListOf(last_pre.spec_dict, cb)
    /\ (last_op # "none" /\ last_cmd.cb \notin IoCallbacks) =>
          IoLists(spec_dict) = IoLists(last_pre.spec_dict)
    /\ undo_index = 0 => IoLists(spec_dict) = IoLists(initial.spec_dict)

\* two pushes, one of them a removal from the output files, then two undos
C6_Witness ==
    /\ undo_index = 0
    /\ Len(undo_stack) = 2
    /\ last_op = "undo"
    /\ last_cmd.cb = "populate_inputfiles_list"
    /\ undo_stack[2].cb = "populate_outputfiles_list"
    /\ undo_stack[2].new = <<>>
    /\ undo_stack[2].old # <<>>
    /\ spec_dict.inputfiles # <<>>

\* C7 as stated: undoing a tool type change leaves spec_dict as it was before
\* the change was pushed, the tooltype and execution_settings entries included.
C7_TooltypeChangeReversible ==
    (last_op = "undo" /\ last_cmd.cb = "_set_tooltype") =>
        spec_dict = last_cmd.before.spec_dict

\* C8 as stated: undoing a program file command restores spec_dict["includes"]
\* and includes_main_path to what they were before the command was pushed.
C8_ProgramFilesReversible ==
    (last_op = "undo" /\ last_cmd.cb = "_set_program_files") =>
        /\ spec_dict.has_includes = last_cmd.before.spec_dict.has_includes
        /\ spec_dict.includes = last_cmd.before.spec_dict.includes
        /\ includes_main_path = last_cmd.before.includes_main_path

\* the last step was a _save() whose super()._save() succeeded
Saved == save_returned # "none" /\ save_super_ok

\* the documents _save found modified and could not write (their rows)
FailedRows ==
    {k \in 1..Len(docs_before) :
        docs_before[k].modified /\ docs_before[k].file_path \in save_failing}

\* C9 as stated: _save returns False, writing nothing, when super()._save()
\* fails; when it returns True no document is still marked modified.
C9_SaveSavesAllModified ==
    /\ (save_returned # "none" /\ ~save_super_ok) =>
          (save_returned = "False" /\ attempted = <<>>)
    /\ save_returned = "True" =>
          \A k \in 1..Len(programfile_documents) : ~programfile_documents[k].modified

\* C10: when a modified document cannot be written during _save, an error
\* naming the first such file is shown, that document stays modified, the
\* modified documents before it have been written and are no longer marked
\* modified, and no error is shown when every write succeeds.
C10_WriteErrorSurfaced ==
    Saved =>
        IF FailedRows = {}
        THEN shown_error = NoPath
        ELSE LET k == CHOOSE r \in FailedRows : \A q \in FailedRows : r <= q
             IN  /\ shown_error = basename(docs_before[k].file_path)
                 /\ programfile_documents[k].modified
                 /\ \A j \in 1..(k - 1) :
                       /\ ~programfile_documents[j].modified
                       /\ docs_before[j].modified =>
                             \E n \in 1..Len(attempted) :
                                 attempted[n] = docs_before[j].file_path

\* the second of three modified documents could not be written
C10_Witness ==
    /\ Saved
    /\ Len(programfile_documents) = 3
    /\ \A k \in 1..3 : docs_before[k].modified
    /\ FailedRows = {2}
    /\ ~programfile_documents[1].modified
    /\ programfile_documents[2].modified
    /\ shown_error # NoPath

\* C11: selecting a path that is not a file shows a status bar message, blanks
\* and disables the program text editor and registers no document; a file
\* that has to be read and cannot be read or decoded shows a status bar
\* message and registers no document; every registered document belongs to
\* a path that was read without error.
C11_OnlyReadFilesGetDocuments ==
    /\ \A k \in 1..Len(programfile_documents) :
          programfile_documents[k].file_path \in read_ok
    /\ (load_report.called /\ ~load_report.isfile) =>
          /\ status_bar = [msg |-> "not valid", arg |-> load_report.file_path]
          /\ textEdit_document = NoPath
          /\ ~textEdit_enabled
          /\ programfile_documents = load_report.docs
    /\ (/\ load_report.called
        /\ load_report.isfile
        /\ ~load_report.readable
        /\ ~has_document(load_report.docs, load_report.file_path)) =>
          /\ status_bar = [msg |-> "read error", arg |-> load_report.file_path]
          /\ programfile_documents = load_report.docs

\* an unreadable file was selected while another document was shown
C11_Witness ==
    /\ load_report.called
    /\ load_report.isfile
    /\ ~load_report.readable
    /\ status_bar.msg = "read error"
    /\ Len(programfile_documents) = 1
    /\ ~has_document(programfile_documents, load_report.file_path)
    /\ textEdit_enabled

\* an item without the identity of its object
Shown(item) ==
    [label |-> item.label, path |-> item.path, selected |-> item.selected,
     provider_name |-> item.provider_name, is_pattern |-> item.is_pattern]

\* the selected flag of the item of list that update() finds under label
SelectedOf(list, label) == ItemOfId(list, items_by_label(list, label)[1]).selected

\* what the claim expects self._files to show after update(resources) on list
ExpectedAfterUpdate(before, resources, invalid_types) ==
    LET valid == SelectSeq(resources, LAMBDA r : r.type_ \notin invalid_types)
        known(r) == items_by_label(before, _file_label(r).label) # None
        kept == SelectSeq(valid, known)
        fresh == SelectSeq(valid, LAMBDA r : ~known(r))
    IN  [k \in 1..Len(kept) |->
            [label |-> _file_label(kept[k]).label,
             path |-> IF has_url(kept[k]) THEN kept[k].path ELSE "",
             selected |-> SelectedOf(before, _file_label(kept[k]).label),
             provider_name |-> kept[k].provider,
             is_pattern |-> kept[k].type_ = "file_pattern"]]
        \o [k \in 1..Len(fresh) |-> Shown(from_resource(0, fresh[k]).item)]

\* C12 as stated: after update(resources) the model holds one item per resource
\* of a valid type: first, in resource order, those whose label existed, with
\* label, path, provider name and is_pattern of their resource and the selected
\* flag the item had; then those with a new label, selected.
C12_UpdateMatchesResources ==
    [][\A resources \in ResourceSeqs :
          (update(resources) /\ ~flRaised') =>
              [k \in 1..Len(files') |-> Shown(files'[k])]
                  = ExpectedAfterUpdate(files, resources, invalid_resource_types)]_vars

\* the label the claim gives a resource
StatedLabel(r) ==
    IF r.type_ = "file" THEN r.path
    ELSE IF r.type_ = "database" THEN r.url
    ELSE IF r.label # None THEN r.label ELSE r.path

\* the resources the claim says RuntimeError is raised for
StatedToRaise(r) ==
    \/ r.type_ \notin {"file", "database", "transient_file", "file_pattern"}
    \/ r.type_ \in {"transient_file", "file_pattern"} /\ r.label = None /\ r.url = None

\* C13: _file_label and from_resource raise RuntimeError exactly for a resource
\* of an unknown type and for a transient_file or file_pattern with neither a
\* metadata label nor a url; for every other resource both give the label the
\* claim states, and the lookup of update() finds the item from_resource made.
C13_LabelsAgree ==
    /\ label_call.fn \in {"_file_label", "from_resource", "lookup"} =>
         /\ label_call.raised <=> StatedToRaise(label_resource)
         /\ ~label_call.raised => label_call.label = StatedLabel(label_resource)
    /\ label_call.fn = "lookup" => label_call.found

C13_Witness ==
    /\ label_call.fn = "lookup"
    /\ label_call.found
    /\ label_resource.type_ = "file_pattern"
    /\ label_resource.label = None
    /\ label_call.label = "a"

\* data_dir holds a file named as a manifest
HasManifestFile(listing) ==
    \E k \in 1..Len(listing) :
        /\ startswith(listing[k].name, EXPORTER_EXECUTION_MANIFEST_FILE_PREFIX)
        /\ suffix(listing[k].name) = ".json"

\* the path the claim says an absolute path is converted to
StatedRelative(p) ==
    IF ~isabs(p) THEN p
    ELSE IF Len(p) >= Len(data_dir) /\ SubSeq(p, 1, Len(data_dir)) = data_dir
           THEN SubSeq(p, Len(data_dir) + 1, Len(p))
    ELSE dropwhile_not_output(p)

RECURSIVE StatedPaths(_, _)
\* the concatenation, over the manifest files, of the converted paths of a name
StatedPaths(listing, name) ==
    IF listing = <<>> THEN <<>>
    ELSE LET m == Head(listing).manifest
         IN  (IF name \in DOMAIN m
                THEN [k \in 1..Len(m[name]) |-> StatedRelative(m[name][k])]
                ELSE <<>>)
             \o StatedPaths(Tail(listing), name)

\* the output file names of the manifest files
StatedNames(listing) == UNION {DOMAIN listing[k].manifest : k \in 1..Len(listing)}

\* C15 as stated: collect_execution_manifests returns None when data_dir holds
\* no manifest file; otherwise it maps each output file name to the
\* concatenation of its paths over all manifest files, every absolute path
\* converted to one relative to data_dir or, when not under data_dir, to the
\* part starting at its 'output' component.
C15_ManifestPathsRelative ==
    manifests_call.called =>
        /\ ~HasManifestFile(data_dir_listing) => manifests_call.none
        /\ HasManifestFile(data_dir_listing) =>
             /\ ~manifests_call.none
             /\ DOMAIN manifests_call.dict = StatedNames(data_dir_listing)
             /\ \A name \in DOMAIN manifests_call.dict :
                    manifests_call.dict[name] = StatedPaths(data_dir_listing, name)

\* the resources of the result that are labelled name
Labelled(name) ==
    SelectSeq(export_call.resources, LAMBDA r : r.label = name)

\* the existing files recorded for name in the cache the call returned
ExistingExported(name) ==
    LET recorded == IF export_call.exported_files.none THEN <<>>
                    ELSE get(export_call.exported_files.dict, name)
    IN  {recorded[k] : k \in {i \in 1..Len(recorded) : recorded[i] \in existing_paths}}

\* C14 as stated: for every database with a non-empty output_file_name the
\* result holds at least one resource labelled with that name: one
\* file-in-pack resource per existing exported file recorded for the name, or
\* otherwise transient file resources only; an empty output_file_name
\* contributes no resource; for any number and order of databases.
C14_EveryDatabaseHasResource ==
    export_call.called =>
        /\ \A k \in 1..Len(export_databases) :
             LET name == export_databases[k].output_file_name
                 mine == Labelled(name)
             IN  IF name = "" THEN mine = <<>>
                 ELSE /\ mine # <<>>
                      /\ IF ExistingExported(name) # {}
                           THEN /\ \A i \in 1..Len(mine) : mine[i].type_ = "file_pack"
                                /\ {mine[i].path : i \in 1..Len(mine)} = ExistingExported(name)
                           ELSE \A i \in 1..Len(mine) : mine[i].type_ = "transient_file"
        /\ \A i \in 1..Len(export_call.resources) :
             \E k \in 1..Len(export_databases) :
                 export_call.resources[i].label = export_databases[k].output_file_name

\* a program file is listed in the tree
ProgramFileListed == main_item # NoPath \/ additional_leaves(EdState) # {}

\* the handler left the editor as it was and showed msg in the status bar
OnlyMessage(msg) ==
    /\ UNCHANGED <<spec_dict, includes_main_path, main_item, additional_items,
                   undo_stack, undo_index, timers>>
    /\ status_bar' = [msg |-> msg, arg |-> NoPath]

C18_MainProgramFileKept ==
    [][\A selection \in Selections(EdState) :
          remove_program_files(selection) =>
              IF _selected_program_file_indexes(selection) = {}
                THEN OnlyMessage("Please select program files to remove")
                ELSE /\ main_item # NoPath => main_item' # NoPath
                     /\ spec_dict'.includes # <<>>
                     /\ Head(spec_dict'.includes) = Head(spec_dict.includes)
                     /\ additional_items' =
                          SelectSeq(additional_items,
                                    LAMBDA f : f \notin selection.additional)]_vars

\* the undo stack has just applied a tool-type change
AppliedTooltypeChange ==
    /\ last_op \in {"push", "undo", "redo"}
    /\ last_cmd.cb = "_set_tooltype"

\* the type _set_tooltype, and so clear_execution_settings, was called with
AppliedTooltype == IF last_op = "undo" THEN last_cmd.old[1] ELSE last_cmd.new[1]

C19_DatabaseRoundTrip ==
    /\ round_trip.stage \in {"from_dict", "again"} =>
         /\ round_trip.copy.output_file_name = round_trip.of.output_file_name
         /\ round_trip.copy.url = ""
    /\ round_trip.stage = "again" => round_trip.again = round_trip.dict

C19_Witness ==
    /\ round_trip.stage = "again"
    /\ round_trip.of.url # ""
    /\ round_trip.of.output_file_name = "b"
    /\ round_trip.copy = Database("", "b")

\* the cells of a column, of a row
ColumnCells(table, column) == {<<r, column>> : r \in 0..(rowCount(table) - 1)}
RowCells(table, row) == {<<row, c>> : c \in 0..(columnCount(table) - 1)}

\* data() gives the value of every erroneous cell, whatever mapping is selected
ErroneousCellsShowValue ==
    \A index \in _column_type_errors \cup _row_type_errors, mapping \in Mappings :
        data(main_data, mapping, _column_type_errors, _row_type_errors, index)
            = main_data[index[1] + 1][index[2] + 1]

\* C20: set_type(section, convert_spec, orientation) records a type error for
\* exactly the cells of the column (horizontal) or row (vertical) whose value
\* does not convert; a column check changes only _column_type_errors, a row
\* check only _row_type_errors, nothing is recorded when every value converts,
\* and data() of an erroneous cell is the original value under any mapping.
C20_TypeErrorsOfSection ==
    [][\A section \in RowNumbers \cup ColumnNumbers, convert_spec \in ConvertSpecs :
          /\ set_type(section, convert_spec, "Horizontal") =>
               /\ _column_type_errors' \cap ColumnCells(main_data, section) =
                    {c \in ColumnCells(main_data, section) :
                        ~converts(convert_spec, main_data[c[1] + 1][c[2] + 1])}
               /\ _column_type_errors' \ ColumnCells(main_data, section) =
                    _column_type_errors \ ColumnCells(main_data, section)
               /\ _row_type_errors' = _row_type_errors
               /\ ErroneousCellsShowValue'
          /\ set_type(section, convert_spec, "Vertical") =>
               /\ _row_type_errors' \cap RowCells(main_data, section) =
                    {c \in RowCells(main_data, section) :
                        ~converts(convert_spec, main_data[c[1] + 1][c[2] + 1])}
               /\ _row_type_errors' \ RowCells(main_data, section) =
                    _row_type_errors \ RowCells(main_data, section)
               /\ _column_type_errors' = _column_type_errors
               /\ ErroneousCellsShowValue']_vars

\* the state of test_row_type_checking_produces_error with its pivot mapping
C20_Witness ==
    /\ main_data = <<<<"1", "1">>, <<"Not a valid number", "1">>>>
    /\ 1 \in DOMAIN row_types
    /\ row_types[1] = "float"
    /\ _row_type_errors = {<<1, 0>>}
    /\ _column_type_errors = {}
    /\ mapping_list_index = [valid |-> TRUE, name |-> NoPosition, object |-> 1,
                             read_start_row |-> 0, skip_columns |-> {}]
    /\ data(main_data, mapping_list_index, _column_type_errors, _row_type_errors, <<1, 0>>)
         = "Not a valid number"

\* the cells of a table
Cells(table) ==
    {<<r, c>> : r \in 0..(rowCount(table) - 1), c \in 0..(columnCount(table) - 1)}

\* the cell is in the mapped column, at or below read_start_row, not in a pivoted row
InMappedColumn(mapping, index) ==
    /\ mapping.name # NoPosition
    /\ index[2] = mapping.name
    /\ index[1] >= mapping.read_start_row
    /\ ~(mapping.object # NoPosition /\ index[1] = mapping.object)

\* the cell is in the pivot row, in a column neither skipped nor mapped as a column
InPivotRow(mapping, index) ==
    /\ mapping.object # NoPosition
    /\ index[1] = mapping.object
    /\ index[2] \notin mapping.skip_columns
    /\ ~(mapping.name # NoPosition /\ index[2] = mapping.name)

\* C21: with a mapping selected, data(index, BackgroundRole) is the column
\* mapping's color exactly for the cells of the mapped column at or below
\* read_start_row that are not in a pivoted row, the pivot mapping's color
\* exactly for the cells of the pivot row in columns neither skipped nor mapped
\* as a column, and None for every other cell, so also where the pivot row
\* and the mapped column intersect.
C21_BackgroundColors ==
    mapping_list_index.valid =>
        \A index \in Cells(main_data) :
            LET color == data_color(main_data, mapping_list_index, index)
            IN  /\ color = entity_class_color <=> InMappedColumn(mapping_list_index, index)
                /\ color = entity_color <=> InPivotRow(mapping_list_index, index)
                /\ color \in {entity_class_color, entity_color, None}
                /\ (/\ index[1] = mapping_list_index.object
                    /\ index[2] = mapping_list_index.name) => color = None

\* the state of test_mapping_column_and_pivot_colors: column 0 is mapped and
\* row 0 is pivoted in a table of two rows and two columns
C21_Witness ==
    /\ rowCount(main_data) = 2
    /\ columnCount(main_data) = 2
    /\ mapping_list_index = [valid |-> TRUE, name |-> 0, object |-> 0,
                             read_start_row |-> 0, skip_columns |-> {}]
    /\ data_color(main_data, mapping_list_index, <<0, 0>>) = None
    /\ data_color(main_data, mapping_list_index, <<0, 1>>) = entity_color
    /\ data_color(main_data, mapping_list_index, <<1, 0>>) = entity_class_color
    /\ data_color(main_data, mapping_list_index, <<1, 1>>) = None
====
